---------------------------- MODULE Spec2Model ----------------------------
(***************************************************************************)
(* gImageReader (Qt front end): MainWindow's state stack, progress monitor *)
(* and dictionary installer, and the Recognizer's page-range parser and    *)
(* recognition loop, as one state machine.                                 *)
(*                                                                         *)
(* Two threads take steps: the UI thread (position uiPc) and the worker    *)
(* that Utils::busyTask starts for the lambda of recognize() /             *)
(* recognizeImage() (position wpc).  Invocations the worker posts to the   *)
(* UI thread with QMetaObject::invokeMethod travel in uiQueue.             *)
(***************************************************************************)
EXTENDS Integers, Sequences, FiniteSets, TLC

\* ------------------------------------------------------------------ bounds
MaxNPages == 2      \* most pages the displayed document has
MaxAreas == 2       \* most OCR areas a page has
MaxStack == 4       \* a request starts only below this state-stack depth
MaxTokens == 3      \* longest page-range text, in tokens (SpecPages)
MaxLangs == 2       \* most language directories the dictionary index lists
MaxFiles == 2       \* most dictionary files a language directory lists
MaxFrames == 3      \* most notification frames alive at a time
MaxCrashFiles == 3  \* most crash-save files found when the handler runs
MaxSessionPages == 3 \* most pages of a request whose read session is followed

\* --------------------------------------------------------------- constants
IntMax == 2147483647    \* the largest int: QString::toInt() yields 0 beyond it

VARIABLES
    m_stateStack,       \* MainWindow::m_stateStack (the State of each entry)
    idleEnabled,        \* m_idleActions / m_idleWidgets enabled (setState)
    m_progressMonitor,  \* MainWindow::m_progressMonitor is non-null
    uiPc,               \* where the UI thread is
    uiQueue,            \* invocations posted to the UI thread, oldest first
    nPages,             \* Displayer::getNPages()
    task,               \* the running / last request: "pages", "buffer", "clipboard"
    pages,              \* recognize(): the page list
    initOk,             \* what initTesseract reported for the request
    wpc,                \* where the worker is
    activeWorkers,      \* worker tasks started and not yet returned
    idx,                \* recognize(): idx, the pages taken from the list
    pageData,           \* recognize(): pageData ([success, nAreas])
    area,               \* recognize(): OCR areas of the page already handled
    cancelled,          \* ProgressMonitor::mCancelled
    taskResult,         \* what the busyTask lambda returned
    retval,             \* what recognizeImage returned
    failed,             \* recognize(): failed (the pages appended to it)
    calls,              \* tesseract / OutputEditor calls of the request, in order
    msgBoxes,           \* message boxes the running / last handler showed
    clipboard,          \* QApplication::clipboard() text
    rendered,           \* history: the page and the outcome of each setPage executed
    stackBefore,        \* history: m_stateStack when the request began
    stackTouched,       \* history: another handler changed the stack since then
    dlgText,            \* lineEditPageRange->text() while the dialog is open
    dlgStyleError,      \* lineEditPageRange carries the error style sheet
    dict,               \* dictionaryAutoinstall's locals
    closeEv,            \* what became of the last QCloseEvent ("none": none yet)
    m_curLang,          \* Recognizer::m_curLang
    languageSetting,    \* the "language" setting
    availLanguages,     \* the languages tesseract finds installed
    spellDicts,         \* the spelling dictionaries QtSpell finds installed
    menuLanguages,      \* the languages the menu was built from
    radioItems,         \* m_langMenuRadioGroup: the Lang of each language item
    menuChecked,        \* m_langMenuCheckGroup: the prefixes of the checked items
    announced,          \* history: the Lang of the last languageChanged signal, if any
    m_notifierHandle,   \* MainWindow::m_notifierHandle (0: nullptr)
    notifications,      \* the frames of the "Spelling dictionary missing" notifications
    dictinstall,        \* the "dictinstall" setting
    psm,                \* the "psm" setting
    psmChecked,         \* m_psmCheckGroup: the modes of the checked items
    pageSegMode,        \* history: what SetPageSegMode received in the request, if called
    m_outputEditor,     \* MainWindow::m_outputEditor: "live", or "deleted" (dangling)
    modified,           \* what getModified() of the live output editor returns
    crashFiles,         \* the i for which <pkg>_crash-save_i.txt exists (0: no suffix)
    mainPc,             \* where MainWindow is: "run", "setOCRMode", "destructor", "crashed"
    crash,              \* history: what signalHandlerExec did
    ocraddsourcefilename, \* the "ocraddsourcefilename" setting
    ocraddsourcepage,   \* the "ocraddsourcepage" setting
    prependFile,        \* recognize(): bool prependFile
    prependPage,        \* recognize(): bool prependPage
    prevFile,           \* the lambda's QString prevFile
    firstChunk,         \* the lambda's bool firstChunk
    newFile,            \* the lambda's bool newFile
    readSessionData,    \* *readSessionData: file, prependPage, prependFile
    session             \* where the lambda is in its loops, and its history

\* What the recognition and the dictionary installer leave alone.
langVars == <<m_curLang, languageSetting, availLanguages, spellDicts, menuLanguages,
              radioItems, menuChecked, announced, m_notifierHandle, notifications,
              dictinstall, psmChecked>>

\* What only the output editor's life and the crash handler change.
crashVars == <<m_outputEditor, modified, crashFiles, mainPc, crash>>

\* What only the read session of recognize() changes.
sessionVars == <<ocraddsourcefilename, ocraddsourcepage, prependFile, prependPage,
                 prevFile, firstChunk, newFile, readSessionData, session>>

shellVars == <<closeEv, langVars, psm, crashVars, sessionVars>>

vars == <<m_stateStack, idleEnabled, m_progressMonitor, uiPc, uiQueue, nPages,
          task, pages, initOk, wpc, activeWorkers, idx, pageData, area,
          cancelled, taskResult, retval, failed, calls, msgBoxes, clipboard,
          rendered, stackBefore, stackTouched, dlgText, dlgStyleError, dict,
          shellVars, pageSegMode>>

\* ----------------------------------------------------------------- helpers
Last(s) == s[Len(s)]

RECURSIVE Insert(_, _)
Insert(x, s) ==
    IF s = <<>> THEN <<x>>
    ELSE IF x <= Head(s) THEN <<x>> \o s
    ELSE <<Head(s)>> \o Insert(x, Tail(s))

\* std::sort(pages.begin(), pages.end())
RECURSIVE Sort(_)
Sort(s) == IF s = <<>> THEN <<>> ELSE Insert(Head(s), Sort(Tail(s)))

RECURSIVE Range(_, _)
Range(a, b) == IF a > b THEN <<>> ELSE <<a>> \o Range(a + 1, b)

RECURSIVE Count(_, _)
Count(x, s) ==
    IF s = <<>> THEN 0
    ELSE (IF Head(s) = x THEN 1 ELSE 0) + Count(x, Tail(s))

Max(a, b) == IF a >= b THEN a ELSE b
Min(a, b) == IF a <= b THEN a ELSE b

\* ------------------------------------------------- selectPages: the parser
\* A text is a sequence of one-character strings.
Digits == {"0", "1", "2", "3", "4", "5", "6", "7", "8", "9"}

DigitVal(c) ==
    CASE c = "0" -> 0 [] c = "1" -> 1 [] c = "2" -> 2 [] c = "3" -> 3
      [] c = "4" -> 4 [] c = "5" -> 5 [] c = "6" -> 6 [] c = "7" -> 7
      [] c = "8" -> 8 [] c = "9" -> 9

IsSpace(c) == c = " "

\* QRegExp validateRegEx("^[\\d,\\-\\s]+$"); validateRegEx.indexIn(text) != -1
validateRegEx(text) ==
    /\ Len(text) > 0
    /\ \A i \in 1..Len(text) : text[i] \in Digits \cup {",", "-"} \/ IsSpace(text[i])

\* text.replace(QRegExp("\\s+"), "")
RECURSIVE RemoveSpaces(_)
RemoveSpaces(text) ==
    IF text = <<>> THEN <<>>
    ELSE IF IsSpace(Head(text)) THEN RemoveSpaces(Tail(text))
    ELSE <<Head(text)>> \o RemoveSpaces(Tail(text))

\* QString::split(sep, QString::SkipEmptyParts): cur is the part being read
RECURSIVE SplitFrom(_, _, _)
SplitFrom(text, sep, cur) ==
    IF text = <<>> THEN (IF cur = <<>> THEN <<>> ELSE <<cur>>)
    ELSE IF Head(text) = sep
         THEN (IF cur = <<>> THEN <<>> ELSE <<cur>>) \o SplitFrom(Tail(text), sep, <<>>)
         ELSE SplitFrom(Tail(text), sep, Append(cur, Head(text)))

Split(text, sep) == SplitFrom(text, sep, <<>>)

\* The decimal value of a digit string, or -1 when it does not fit an int.
RECURSIVE DecimalFrom(_, _)
DecimalFrom(s, acc) ==
    IF s = <<>> THEN acc
    ELSE IF acc > (IntMax - DigitVal(Head(s))) \div 10 THEN -1
    ELSE DecimalFrom(Tail(s), acc * 10 + DigitVal(Head(s)))

\* QString::toInt(): 0 when the conversion fails (not a number, or out of range)
toInt(s) ==
    IF s = <<>> \/ \E i \in 1..Len(s) : s[i] \notin Digits THEN 0
    ELSE LET v == DecimalFrom(s, 0) IN IF v = -1 THEN 0 ELSE v

\* The for loop over the blocks of the text; acc is `pages` so far.
RECURSIVE ParseBlocks(_, _, _)
ParseBlocks(blocks, n, acc) ==
    IF blocks = <<>> THEN acc
    ELSE LET ranges == Split(Head(blocks), "-") IN
         IF Len(ranges) = 1 THEN
             LET page == toInt(ranges[1]) IN
             ParseBlocks(Tail(blocks), n,
                         IF page > 0 /\ page <= n THEN Append(acc, page) ELSE acc)
         ELSE IF Len(ranges) = 2 THEN
             LET start == Max(1, toInt(ranges[1]))
                 end == Min(n, toInt(ranges[2])) IN
             ParseBlocks(Tail(blocks), n, acc \o Range(start, end))
         ELSE <<>>

\* One pass of the while loop of selectPages: `pages` for the accepted text.
PagesOfText(text, n) ==
    IF validateRegEx(text) THEN ParseBlocks(Split(RemoveSpaces(text), ","), n, <<>>)
    ELSE <<>>

DigitChar(d) ==
    CASE d = 0 -> "0" [] d = 1 -> "1" [] d = 2 -> "2" [] d = 3 -> "3"
      [] d = 4 -> "4" [] d = 5 -> "5" [] d = 6 -> "6" [] d = 7 -> "7"
      [] d = 8 -> "8" [] d = 9 -> "9"

\* QString("%1").arg(n) for n >= 0
RECURSIVE ToText(_)
ToText(n) == IF n < 10 THEN <<DigitChar(n)>> ELSE Append(ToText(n \div 10), DigitChar(n % 10))

\* ------------------------------------------------------------ input sets
\* A digit string whose value does not fit an int.
BigNumber == <<"9", "9", "9", "9", "9", "9", "9", "9", "9", "9">>

\* What the user types into the page-range line edit, piece by piece.
RichTokens == {<<"1">>, <<"2">>, <<"3">>, <<",">>, <<"-">>, <<" ">>, <<"x">>, BigNumber}
PlainTokens == {<<"1">>, <<"2">>, <<",">>, <<"-">>}

RECURSIVE TextsOf(_, _)
TextsOf(tokens, k) ==
    IF k = 0 THEN {<<>>}
    ELSE LET shorter == TextsOf(tokens, k - 1) IN
         shorter \cup {t \o tok : t \in shorter, tok \in tokens}

RichTexts == TextsOf(RichTokens, MaxTokens)
PlainTexts == TextsOf(PlainTokens, MaxTokens)

\* The edits of a text: everything is deleted, or a token is typed at the end.
Edits(text, tokens, texts) == {<<>>} \cup ({text \o tok : tok \in tokens} \cap texts)

\* ------------------------------------------- Recognizer's language menu
\* A QString is a sequence of tokens: a tesseract language prefix, a spelling
\* dictionary code, the two letters a code starts with, "+" or ":".

\* Config::Lang {prefix, code, name}
Lang(prefix, code, name) == [prefix |-> prefix, code |-> code, name |-> name]

\* Config::Lang(): every field empty
NoLang == Lang(<<>>, <<>>, <<>>)

\* The languages tesseract may report, in getAvailableLanguages' order, and
\* the dictionaries QtSpell may list, in std::sort's order.
Tessdata == <<"deu", "eng", "lat", "osd">>
SpellingDicts == <<"de_DE", "en_GB">>

\* QString::left(2) of a dictionary code
Left2(code) ==
    IF code = <<>> THEN <<>>
    ELSE <<(("de_DE" :> "de") @@ ("en_GB" :> "en") @@ ("en_EN" :> "en"))[Head(code)]>>

\* Lang lang = {langprefix, "", ""}; searchLangSpec fills code and name of a
\* language it knows, and of any other the name is the prefix.
searchLangSpec(langprefix) ==
    IF langprefix = "deu" THEN Lang(<<"deu">>, <<"de_DE">>, <<"German">>)
    ELSE IF langprefix = "eng" THEN Lang(<<"eng">>, <<"en_EN">>, <<"English">>)
    ELSE Lang(<<langprefix>>, <<>>, <<langprefix>>)

\* Recognizer::getAvailableLanguages: the sorted list
getAvailableLanguages(avail) == SelectSeq(Tessdata, LAMBDA l : l \in avail)

\* QString::split(sep): the parts between the separators, empty ones too
RECURSIVE SplitAllFrom(_, _, _)
SplitAllFrom(s, sep, part) ==
    IF s = <<>> THEN <<part>>
    ELSE IF Head(s) = sep THEN <<part>> \o SplitAllFrom(Tail(s), sep, <<>>)
    ELSE SplitAllFrom(Tail(s), sep, Append(part, Head(s)))

SplitAll(s, sep) == SplitAllFrom(s, sep, <<>>)

\* The elements of a list
Elements(s) == {s[i] : i \in 1..Len(s)}

\* updateLanguagesMenu, the spelling dictionaries of a language: those that
\* start with the two letters of its code, sorted
spelldictsOf(lang, dicts) ==
    IF lang.code = <<>> THEN <<>>
    ELSE SelectSeq(SpellingDicts, LAMBDA d : d \in dicts /\ Left2(<<d>>) = Left2(lang.code))

\* updateLanguagesMenu, the radio items of one language: an item for each of
\* its spelling dictionaries in a submenu, or one item for the language
RadioItemsOf(langprefix, dicts) ==
    LET lang == searchLangSpec(langprefix)
        spelldicts == spelldictsOf(lang, dicts)
    IN  IF spelldicts # <<>>
        THEN [i \in 1..Len(spelldicts) |->
                [lang |-> Lang(lang.prefix, <<spelldicts[i]>>, lang.name), submenu |-> TRUE]]
        ELSE <<[lang |-> lang, submenu |-> FALSE]>>

\* The radio items of the menu in the order they are created; "osd" has none
RECURSIVE RadioItems(_, _)
RadioItems(langs, dicts) ==
    IF langs = <<>> THEN <<>>
    ELSE (IF Head(langs) = "osd" THEN <<>> ELSE RadioItemsOf(Head(langs), dicts))
         \o RadioItems(Tail(langs), dicts)

\* The loop over the radio items from item i on: an item of the stored
\* language's prefix becomes curlang and activeitem (0: nullptr); an item of
\* a submenu only if the stored code is its dictionary, or if no item is
\* active yet and the stored code is empty or the dictionary's two letters.
RECURSIVE SelectItem(_, _, _, _)
SelectItem(items, i, curlang, activeitem) ==
    IF i > Len(items) THEN [curlang |-> curlang, activeitem |-> activeitem]
    ELSE LET lang == items[i].lang
             matches ==
                /\ curlang.prefix = lang.prefix
                /\ \/ ~items[i].submenu
                   \/ curlang.code = lang.code
                   \/ /\ activeitem = 0
                      /\ curlang.code = Left2(lang.code) \/ curlang.code = <<>>
         IN  IF matches THEN SelectItem(items, i + 1, lang, i)
             ELSE SelectItem(items, i + 1, curlang, activeitem)

\* The items of the multilingual menu: the prefixes but "osd"
CheckItems(langs) == SelectSeq(langs, LAMBDA l : l # "osd")

\* setMultiLanguage: langs += data + "+" for each checked item
RECURSIVE CheckedLangs(_, _)
CheckedLangs(items, checked) ==
    IF items = <<>> THEN <<>>
    ELSE (IF Head(items) \in checked THEN <<Head(items), "+">> ELSE <<>>)
         \o CheckedLangs(Tail(items), checked)

\* The language a handler leaves: m_curLang, the "language" setting and the
\* languageChanged signals it emitted
Selected(lang, setting, emitted) ==
    [m_curLang |-> lang, languageSetting |-> setting, emitted |-> emitted]

\* Recognizer::setMultiLanguage with the items `checked`
setMultiLanguageFallback(langs) == IF langs = <<>> THEN <<"eng", "+">> ELSE langs

setMultiLanguage(items, checked) ==
    LET joined == setMultiLanguageFallback(CheckedLangs(items, checked))
        langs == SubSeq(joined, 1, Len(joined) - 1)
        lang == Lang(langs, <<>>, <<"Multilingual">>)
    IN  Selected(lang, langs \o <<":">>, <<lang>>)

\* Recognizer::setLanguage of a checked item
setLanguage(lang) == Selected(lang, lang.prefix \o <<":">> \o lang.code, <<lang>>)

\* updateLanguagesMenu, line 925: the stored prefix names several languages
isMultilingualPrefix(prefix) == "+" \in Elements(prefix)

\* Recognizer::updateLanguagesMenu with the stored setting, the languages
\* tesseract reports and the dictionaries QtSpell lists: the menu it builds
\* and the language it selects.
updateLanguagesMenu(setting, avail, dicts) ==
    LET parts == SplitAll(setting, ":")
        stored == Lang(parts[1],
                       IF Len(parts) < 2 THEN <<>> ELSE parts[2],
                       IF Len(parts) < 3 THEN <<>> ELSE parts[3])
        availLangs == getAvailableLanguages(avail)
        items == RadioItems(availLangs, dicts)
        sel == SelectItem(items, 1, stored, 0)
        isMultilingual == availLangs # <<>> /\ isMultilingualPrefix(sel.curlang.prefix)
        sellangs == Split(sel.curlang.prefix, "+")
        checked == {l \in Elements(CheckItems(availLangs)) :
                        isMultilingual /\ <<l>> \in Elements(sellangs)}
        activeitem == IF sel.activeitem # 0 THEN sel.activeitem ELSE Len(items)
        selected == IF isMultilingual THEN setMultiLanguage(CheckItems(availLangs), checked)
                    ELSE IF activeitem # 0 THEN setLanguage(items[activeitem].lang)
                    ELSE Selected(NoLang, setting, <<>>)
    IN  [menuLanguages |-> availLangs,
         radioItems |-> [i \in 1..Len(items) |-> items[i].lang],
         menuChecked |-> checked,
         isMultilingual |-> isMultilingual,
         selected |-> selected]

\* ----------------------------------------------------- MainWindow's state
States == {"Idle", "Normal", "Busy"}

NoPage == [success |-> FALSE, nAreas |-> 0]
NoDict == [pc |-> "none", code |-> <<>>, langs |-> 0, files |-> 0, downloaded |-> 0,
           failed |-> 0, lost |-> FALSE]

\* QtSpell::checkLanguageInstalled
checkLanguageInstalled(code, dicts) == Head(code) \in dicts

\* MainWindow::hideNotification(handle): the frame is deleted (deleteLater)
hideNotification_keeps(frames, handle) == frames
hideNotification(frames, handle) == frames \ {handle}

\* new QFrame(): a frame that is none of the live ones
NewFrame(frames) == CHOOSE f \in 1..MaxFrames : f \notin frames /\ \A g \in 1..(f - 1) : g \in frames

\* MainWindow::languageChanged(lang): the notification of the language before
\* is hidden and the handle cleared; a language with a spelling code whose
\* dictionary is not installed gets a notification, unless "dictinstall" is off.
languageChanged(lang, handle, frames, dicts, install) ==
    LET hidden == hideNotification(frames, handle)
    IN  IF lang.code # <<>> /\ ~checkLanguageInstalled(lang.code, dicts) /\ install
        THEN [m_notifierHandle |-> NewFrame(hidden), notifications |-> hidden \cup {NewFrame(hidden)}]
        ELSE [m_notifierHandle |-> 0, notifications |-> hidden]

\* updateLanguagesMenu, the page segmentation modes of the menu's entries
\* (tesseract::PageSegMode), and those that require "osd"
PsmModes == {3, 1, 4, 5, 6, 7, 8, 9, 11, 12}
OsdModes == {1, 12}

\* VarSetting<int>("psm", 6)
DefaultPsm == 6

\* item->setChecked(activePsm == entry.psmMode)
PsmItemChecked_never(activePsm, psmMode) == FALSE
PsmItemChecked(activePsm, psmMode) == activePsm = psmMode

\* The checked items of the m_psmCheckGroup that updateLanguagesMenu builds
PsmChecked(activePsm) == {psmMode \in PsmModes : PsmItemChecked(activePsm, psmMode)}

\* m_psmCheckGroup->checkedAction()->data().toInt(): with no item checked
\* checkedAction() is nullptr, and what is read through it is any value.
MaxPsm == 13
checkedActionData(checked) == IF checked = {} THEN 0..MaxPsm ELSE checked

\* The crash handlers: signalHandler for SIGSEGV and SIGABRT (lines 218-219),
\* and tesseractCrash for SIGABRT once initTesseract has run (line 825).
Crashes == {<<"SIGSEGV", FALSE>>, <<"SIGABRT", FALSE>>, <<"SIGABRT", TRUE>>}

\* No crash yet.
NoCrash == [signal |-> "", tesseractCrash |-> FALSE, existed |-> {}, filename |-> <<>>]

\* MAIN->getOutputEditor()->getModified(): the flag of a live editor; read
\* through the pointer to a deleted editor it is any value.
getModified(editor, flag) == IF editor = "live" THEN {flag} ELSE BOOLEAN

\* The file name signalHandlerExec saves to, as the i of
\* "<pkg>_crash-save_i.txt" (0: "<pkg>_crash-save.txt"): the first name, from
\* i on, of no existing file.
RECURSIVE FirstFreeFrom(_, _)
FirstFreeFrom(i, files) == IF i \in files THEN FirstFreeFrom(i + 1, files) ELSE i
crashSaveName(files) == FirstFreeFrom(0, files)

\* The files of the sources, as pageData.filename names them; <<>> is the
\* empty QString.
Files == {<<"a">>, <<"b">>}

\* The read session's data before a page has been set up, and the lambda
\* before recognize() has been called.
NoSession == [file |-> <<>>, prependPage |-> FALSE, prependFile |-> FALSE]
NoLoop == [pc |-> "none", npages |-> 0, idx |-> 0, nAreas |-> 0, area |-> 0, setUp |-> <<>>]

\* readSessionData->prependPage and readSessionData->prependFile of an area
PrependPageOf(prepend, first) == prepend /\ first
PrependFileOf_newFileOnly(prepend, sessionPrependPage, new) == prepend /\ new
PrependFileOf(prepend, sessionPrependPage, new) == prepend /\ (sessionPrependPage \/ new)

\* The program starts with every language and no spelling dictionary
\* installed, and with the settings' defaults.
DefaultLanguage == <<"eng", ":", "en_EN">>

\* The shell's state after construction: MainWindow::MainWindow calls
\* updateLanguagesMenu (line 275) after it has connected languageChanged.
ShellInit ==
    /\ closeEv = "none"
    /\ availLanguages = Elements(Tessdata)
    /\ spellDicts = {}
    /\ dictinstall = TRUE
    /\ psm = DefaultPsm
    /\ psmChecked = PsmChecked(psm)
    /\ pageSegMode = <<>>
    /\ m_outputEditor = "live"
    /\ modified = FALSE
    /\ crashFiles = {}
    /\ mainPc = "run"
    /\ crash = NoCrash
    /\ ocraddsourcefilename = FALSE
    /\ ocraddsourcepage = FALSE
    /\ prependFile = FALSE
    /\ prependPage = FALSE
    /\ prevFile = <<>>
    /\ firstChunk = FALSE
    /\ newFile = FALSE
    /\ readSessionData = NoSession
    /\ session = NoLoop
    /\ LET menu == updateLanguagesMenu(DefaultLanguage, availLanguages, spellDicts)
           shown == languageChanged(menu.selected.m_curLang, 0, {}, spellDicts, dictinstall)
       IN  /\ menuLanguages = menu.menuLanguages
           /\ radioItems = menu.radioItems
           /\ menuChecked = menu.menuChecked
           /\ m_curLang = menu.selected.m_curLang
           /\ languageSetting = menu.selected.languageSetting
           /\ announced = menu.selected.emitted
           /\ m_notifierHandle = shown.m_notifierHandle
           /\ notifications = shown.notifications

\* MainWindow::MainWindow: pushState(State::Idle, ...) on the empty stack
Init ==
    /\ m_stateStack = <<"Idle">>
    /\ idleEnabled = FALSE
    /\ m_progressMonitor = FALSE
    /\ uiPc = "idle"
    /\ uiQueue = <<>>
    /\ nPages = 0
    /\ task = "none"
    /\ pages = <<>>
    /\ initOk = FALSE
    /\ wpc = "none"
    /\ activeWorkers = 0
    /\ idx = 0
    /\ pageData = NoPage
    /\ area = 0
    /\ cancelled = FALSE
    /\ taskResult = "none"
    /\ retval = "none"
    /\ failed = <<>>
    /\ calls = <<>>
    /\ msgBoxes = <<>>
    /\ clipboard = "other"
    /\ rendered = <<>>
    /\ stackBefore = <<"Idle">>
    /\ stackTouched = FALSE
    /\ dlgText = <<>>
    /\ dlgStyleError = FALSE
    /\ dict = NoDict
    /\ ShellInit

\* MainWindow::setState: the idle actions and widgets are disabled in Idle only
setState(state) == state # "Idle"

\* QStack::top() of an empty stack reads no element: any State may come out
TopStates(stack) == IF stack = <<>> THEN States ELSE {Last(stack)}

\* MainWindow::pushState
pushState(stack, state) == Append(stack, state)

\* MainWindow::popState: m_stateStack.pop()
popState(stack) == IF stack = <<>> THEN <<>> ELSE SubSeq(stack, 1, Len(stack) - 1)

DoPushState(state) ==
    /\ m_stateStack' = pushState(m_stateStack, state)
    /\ idleEnabled' = setState(state)

DoPopState ==
    /\ m_stateStack' = popState(m_stateStack)
    /\ \E top \in TopStates(popState(m_stateStack)) : idleEnabled' = setState(top)

\* ------------------------------------------------------- the UI event loop
\* Utils::busyTask runs the lambda on a worker and keeps the UI thread in a
\* local event loop until the worker has returned (spec section 5: "the UI
\* thread is blocked via a modal progress dialog"): that loop dispatches the
\* invocations the worker queued, timers and the progress widget's cancel
\* button, and no other user input.
UserInputDeliverable_open == uiPc \in {"idle", "busyTask"}
UserInputDeliverable == uiPc = "idle"

\* Events that are no user input reach the UI thread in both event loops.
InEventLoop == uiPc \in {"idle", "busyTask"}

\* Utils::busyTask: QtConcurrent::run of the lambda
StartWorker(first) ==
    /\ wpc' = first
    /\ activeWorkers' = activeWorkers + 1
    /\ uiPc' = "busyTask"

\* The worker's lambda returns r.
WorkerReturn(r) ==
    /\ wpc' = "finished"
    /\ taskResult' = r
    /\ activeWorkers' = activeWorkers - 1

\* Utils::busyTask returns: the worker is done and what it queued is dispatched
BusyTaskDone == uiPc = "busyTask" /\ wpc = "finished" /\ uiQueue = <<>>

\* onSourceChanged with no source left: popState when the top is Normal
SourceLostPops_always(stack) == TRUE
SourceLostPops(stack) == "Normal" \in TopStates(stack)

\* MainWindow::onSourceChanged.  It is delivered in the event loops, and also
\* inside the DBus call of dictionaryAutoinstall (QDBus::BlockWithGui).
onSourceChanged ==
    /\ InEventLoop \/ (uiPc = "dictionary" /\ dict.pc = "packageKit")
    /\ \E ok \in BOOLEAN, n \in 1..MaxNPages :
        IF ok
        THEN /\ nPages' = n
             /\ IF "Idle" \in TopStates(m_stateStack)
                THEN DoPushState("Normal") /\ stackTouched' = TRUE
                ELSE UNCHANGED <<m_stateStack, idleEnabled, stackTouched>>
        ELSE /\ nPages' = 0
             /\ IF SourceLostPops(m_stateStack)
                THEN DoPopState /\ stackTouched' = TRUE
                ELSE UNCHANGED <<m_stateStack, idleEnabled, stackTouched>>
    /\ UNCHANGED <<m_progressMonitor, uiPc, uiQueue, task, pages, initOk, wpc,
                   activeWorkers, idx, pageData, area, cancelled, taskResult,
                   retval, failed, calls, msgBoxes, clipboard, rendered,
                   stackBefore, dlgText, dlgStyleError, dict, shellVars, pageSegMode>>

\* What MainWindow::closeEvent makes of a close request, given the state on
\* top, what m_outputEditor->clear() returns and isMaximized().
closeEvent_unlessIdle(top, cleared, maximized) ==
    IF top = "Idle" THEN "ignoredBusy"
    ELSE IF ~cleared THEN "ignoredNotCleared"
    ELSE IF ~maximized THEN "acceptedGeometrySaved"
    ELSE "accepted"
closeEventOutcome(top, cleared, maximized) ==
    IF top = "Busy" THEN "ignoredBusy"
    ELSE IF ~cleared THEN "ignoredNotCleared"
    ELSE IF ~maximized THEN "acceptedGeometrySaved"
    ELSE "accepted"

Accepted == {"accepted", "acceptedGeometrySaved"}

\* MainWindow::closeEvent: the window gets a close request.  An accepted
\* request closes the window, which gets no further one.
closeEvent ==
    /\ InEventLoop \/ (uiPc = "dictionary" /\ dict.pc = "packageKit")
    /\ closeEv \notin Accepted
    /\ \E top \in TopStates(m_stateStack), cleared \in BOOLEAN, maximized \in BOOLEAN :
        closeEv' = closeEventOutcome(top, cleared, maximized)
    /\ UNCHANGED <<m_stateStack, idleEnabled, m_progressMonitor, uiPc, uiQueue,
                   nPages, task, pages, initOk, wpc, activeWorkers, idx,
                   pageData, area, cancelled, taskResult, retval, failed, calls,
                   msgBoxes, clipboard, rendered, stackBefore, stackTouched,
                   dlgText, dlgStyleError, dict, langVars, psm, pageSegMode,
                   crashVars, sessionVars>>

\* ------------------------------------------------- Recognizer::recognize()
CriticalBox(title, detail) == [icon |-> "critical", title |-> title, detail |-> detail]
InfoBox(title, detail) == [icon |-> "information", title |-> title, detail |-> detail]

\* A call into tesseract or the OutputEditor: for page list entry i, OCR area a.
Call(op, i, a) == [op |-> op, i |-> i, a |-> a]

\* The locals of a request, as they are when its handler is entered.  The
\* locals and the history of the handler before it are of no use any more.
NewRequest(kind, ps) ==
    /\ task' = kind
    /\ pages' = ps
    /\ idx' = 0
    /\ area' = 0
    /\ pageData' = NoPage
    /\ cancelled' = FALSE
    /\ taskResult' = "none"
    /\ failed' = <<>>
    /\ rendered' = <<>>
    /\ stackBefore' = m_stateStack
    /\ stackTouched' = FALSE
    /\ dict' = NoDict

\* recognize(), up to the event loop of busyTask: initTesseract, and when that
\* succeeded SetPageSegMode, initRead, the ProgressMonitor, showProgress and the worker's start.
\* A failed initialisation ends the function without a word.
recognize(ps) ==
    /\ NewRequest("pages", ps)
    /\ msgBoxes' = <<>>
    /\ retval' = "none"
    /\ \E ok \in BOOLEAN :
        /\ initOk' = ok
        /\ IF ok
           THEN /\ \E mode \in checkedActionData(psmChecked) : pageSegMode' = <<mode>>
                /\ calls' = <<Call("initRead", 0, 0)>>
                /\ m_progressMonitor' = TRUE
                /\ StartWorker("loopHead")
           ELSE /\ pageSegMode' = <<>>
                /\ calls' = <<>>
                /\ uiPc' = "idle"
                /\ UNCHANGED <<m_progressMonitor, wpc, activeWorkers>>
    /\ UNCHANGED <<m_stateStack, idleEnabled, uiQueue, nPages, clipboard, shellVars>>

\* MainWindow::getDisplayer()->getCurrentPage()
CurrentPages == 1..Max(nPages, 1)

\* Recognizer::recognizeButtonClicked: one page is recognised at once, more
\* pages open the menu with "Current Page" and "Multiple Pages...".
recognizeButtonClicked ==
    /\ UserInputDeliverable
    /\ idleEnabled
    /\ Len(m_stateStack) < MaxStack
    /\ IF nPages = 1
       THEN /\ \E p \in CurrentPages : recognize(<<p>>)
            /\ UNCHANGED <<dlgText, dlgStyleError>>
       ELSE /\ uiPc' = "menuPages"
            /\ NewRequest("none", <<>>)
            /\ pageSegMode' = <<>>
            /\ initOk' = FALSE
            /\ retval' = "none"
            /\ calls' = <<>>
            /\ msgBoxes' = <<>>
            /\ UNCHANGED <<m_stateStack, idleEnabled, m_progressMonitor, uiQueue,
                           nPages, wpc, activeWorkers, clipboard, dlgText,
                           dlgStyleError, shellVars>>

\* The menu is dismissed without a choice.
menuPagesDismissed ==
    /\ uiPc = "menuPages"
    /\ uiPc' = "idle"
    /\ UNCHANGED <<m_stateStack, idleEnabled, m_progressMonitor, uiQueue, nPages,
                   task, pages, initOk, wpc, activeWorkers, idx, pageData, area,
                   cancelled, taskResult, retval, failed, calls, msgBoxes,
                   clipboard, rendered, stackBefore, stackTouched, dlgText, dlgStyleError, dict, shellVars, pageSegMode>>

\* Recognizer::recognizeCurrentPage
recognizeCurrentPage ==
    /\ uiPc = "menuPages"
    /\ \E p \in CurrentPages : recognize(<<p>>)
    /\ UNCHANGED <<dlgText, dlgStyleError>>

\* Recognizer::recognizeMultiplePages, up to m_pagesDialog->exec() in
\* selectPages: the line edit is set to "1-<nPages>", which is a change of its
\* text and so clears its style (clearLineEditPageRangeStyle).
recognizeMultiplePages ==
    /\ uiPc = "menuPages"
    /\ uiPc' = "pagesDialog"
    /\ dlgText' = <<"1", "-">> \o ToText(nPages)
    /\ dlgStyleError' = FALSE
    /\ UNCHANGED <<m_stateStack, idleEnabled, m_progressMonitor, uiQueue, nPages,
                   task, pages, initOk, wpc, activeWorkers, idx, pageData, area,
                   cancelled, taskResult, retval, failed, calls, msgBoxes,
                   clipboard, rendered, stackBefore, stackTouched, dict, shellVars, pageSegMode>>

\* Recognizer::clearLineEditPageRangeStyle: setStyleSheet("")
clearLineEditPageRangeStyle_keeps(styleError) == styleError
clearLineEditPageRangeStyle(styleError) == FALSE

\* The user changes the text of the line edit: textChanged clears the style.
editPageRange(t) ==
    /\ uiPc = "pagesDialog"
    /\ t # dlgText
    /\ dlgText' = t
    /\ dlgStyleError' = clearLineEditPageRangeStyle(dlgStyleError)
    /\ UNCHANGED <<m_stateStack, idleEnabled, m_progressMonitor, uiPc, uiQueue,
                   nPages, task, pages, initOk, wpc, activeWorkers, idx,
                   pageData, area, cancelled, taskResult, retval, failed, calls,
                   msgBoxes, clipboard, rendered, stackBefore, stackTouched, dict, shellVars, pageSegMode>>

\* selectPages: m_pagesDialog->exec() == QDialog::Accepted.  A text that gives
\* no page marks the line edit and opens the dialog again; any other ends the
\* loop, and recognizeMultiplePages goes on into recognize() with the sorted
\* list.  The text is read while the dialog is open only: the next
\* selectPages overwrites it.
pagesDialogAccepted ==
    /\ uiPc = "pagesDialog"
    /\ LET ps == PagesOfText(dlgText, nPages) IN
       IF ps = <<>>
       THEN /\ dlgStyleError' = TRUE
            /\ UNCHANGED <<m_stateStack, idleEnabled, m_progressMonitor, uiPc,
                           uiQueue, nPages, task, pages, initOk, wpc,
                           activeWorkers, idx, pageData, area, cancelled,
                           taskResult, retval, failed, calls, msgBoxes,
                           clipboard, rendered, stackBefore, stackTouched, dlgText, dict, shellVars, pageSegMode>>
       ELSE /\ recognize(Sort(ps))
            /\ dlgText' = <<>>
            /\ UNCHANGED dlgStyleError

\* selectPages: the dialog is cancelled, the loop ends with an empty list, and
\* recognizeMultiplePages hands that list to recognize().
pagesDialogRejected ==
    /\ uiPc = "pagesDialog"
    /\ recognize(<<>>)
    /\ dlgText' = <<>>
    /\ UNCHANGED dlgStyleError

\* ------------------------------------------ the worker of recognize()
Blocking == "BlockingQueuedConnection"
Queued == "QueuedConnection"

\* The connection type of each QMetaObject::invokeMethod of the lambda.
ConnectionType_allQueued(method) == Queued
ConnectionType(method) == IF method = "setPage" THEN Blocking ELSE Queued

\* An invocation of `method`, posted for entry i of the list, with its page.
Invocation(method, i, page) == [method |-> method, i |-> i, page |-> page]

\* Where the worker goes on after posting `method`: a blocking invocation
\* holds it until the UI thread has executed the method.
AfterPost(method, waitAt, next) ==
    IF ConnectionType(method) = Blocking THEN waitAt ELSE next

\* for(int page : pages): the next page, ++idx, and the pushState invocation
WorkerNextPage ==
    /\ wpc = "loopHead"
    /\ idx < Len(pages)
    /\ idx' = idx + 1
    /\ uiQueue' = Append(uiQueue, Invocation("pushState", idx + 1, pages[idx + 1]))
    /\ wpc' = AfterPost("pushState", "waitPushState", "callSetPage")
    /\ UNCHANGED <<m_stateStack, idleEnabled, m_progressMonitor, uiPc, nPages,
                   task, pages, initOk, activeWorkers, pageData, area,
                   cancelled, taskResult, retval, failed, calls, msgBoxes,
                   clipboard, rendered, stackBefore, stackTouched, dlgText, dlgStyleError, dict, shellVars, pageSegMode>>

\* pageData.success = false; and the setPage invocation
WorkerCallSetPage ==
    /\ wpc = "callSetPage"
    /\ pageData' = NoPage
    /\ uiQueue' = Append(uiQueue, Invocation("setPage", idx, pages[idx]))
    /\ wpc' = AfterPost("setPage", "waitSetPage", "pageSetUp")
    /\ UNCHANGED <<m_stateStack, idleEnabled, m_progressMonitor, uiPc, nPages,
                   task, pages, initOk, activeWorkers, idx, area, cancelled,
                   taskResult, retval, failed, calls, msgBoxes, clipboard,
                   rendered, stackBefore, stackTouched, dlgText, dlgStyleError, dict, shellVars, pageSegMode>>

\* The list is exhausted: return true
WorkerLoopEnd ==
    /\ wpc = "loopHead"
    /\ idx = Len(pages)
    /\ WorkerReturn(TRUE)
    /\ UNCHANGED <<m_stateStack, idleEnabled, m_progressMonitor, uiPc, uiQueue,
                   nPages, task, pages, initOk, idx, pageData, area, cancelled,
                   retval, failed, calls, msgBoxes, clipboard, rendered,
                   stackBefore, stackTouched, dlgText, dlgStyleError, dict, shellVars, pageSegMode>>

\* `continue`: on to the head of the page loop
Continue == wpc' = "loopHead" /\ UNCHANGED <<taskResult, activeWorkers>>

\* `break`: out of the page loop, to `return true`
Break == WorkerReturn(TRUE)

\* How the loop goes on after a page that failed to render: `continue`
AfterFailedPage_break == Break
AfterFailedPage == Continue

\* if(!pageData.success): the page is noted as failed, readError is called,
\* and the loop goes on
WorkerPageFailed ==
    /\ wpc = "pageSetUp"
    /\ ~pageData.success
    /\ failed' = Append(failed, pages[idx])
    /\ calls' = Append(calls, Call("readError", idx, 0))
    /\ AfterFailedPage
    /\ UNCHANGED <<m_stateStack, idleEnabled, m_progressMonitor, uiPc, uiQueue,
                   nPages, task, pages, initOk, idx, pageData,
                   area, cancelled, retval, msgBoxes, clipboard,
                   rendered, stackBefore, stackTouched, dlgText, dlgStyleError, dict, shellVars, pageSegMode>>

\* The page is set up: the session data is filled in and the areas are begun.
WorkerPageOk ==
    /\ wpc = "pageSetUp"
    /\ pageData.success
    /\ area' = 0
    /\ wpc' = "areaLoop"
    /\ UNCHANGED <<m_stateStack, idleEnabled, m_progressMonitor, uiPc, uiQueue,
                   nPages, task, pages, initOk, activeWorkers, idx, pageData,
                   cancelled, taskResult, retval, failed, calls, msgBoxes,
                   clipboard, rendered, stackBefore, stackTouched, dlgText, dlgStyleError, dict, shellVars, pageSegMode>>

\* for(const QImage& image : pageData.ocrAreas): SetImage and Recognize
WorkerRecognize ==
    /\ wpc = "areaLoop"
    /\ area < pageData.nAreas
    /\ calls' = Append(calls, Call("Recognize", idx, area + 1))
    /\ wpc' = "recognized"
    /\ UNCHANGED <<m_stateStack, idleEnabled, m_progressMonitor, uiPc, uiQueue,
                   nPages, task, pages, initOk, activeWorkers, idx, pageData,
                   area, cancelled, taskResult, retval, failed, msgBoxes,
                   clipboard, rendered, stackBefore, stackTouched, dlgText, dlgStyleError, dict, shellVars, pageSegMode>>

\* if(!monitor.cancelled()) read(*tess, readSessionData)
Relay_never(cs, c) == cs
Relay(cs, c) == IF cancelled THEN cs ELSE Append(cs, c)

\* The result of the area is relayed, and the next area is taken.
WorkerRead ==
    /\ wpc = "recognized"
    /\ calls' = Relay(calls, Call("read", idx, area + 1))
    /\ area' = area + 1
    /\ wpc' = "areaLoop"
    /\ UNCHANGED <<m_stateStack, idleEnabled, m_progressMonitor, uiPc, uiQueue,
                   nPages, task, pages, initOk, activeWorkers, idx, pageData,
                   cancelled, taskResult, retval, failed, msgBoxes, clipboard,
                   rendered, stackBefore, stackTouched, dlgText, dlgStyleError, dict, shellVars, pageSegMode>>

\* After the last area: the popState invocation
WorkerPopState ==
    /\ wpc = "areaLoop"
    /\ area = pageData.nAreas
    /\ uiQueue' = Append(uiQueue, Invocation("popState", idx, pages[idx]))
    /\ wpc' = AfterPost("popState", "waitPopState", "pageEnd")
    /\ UNCHANGED <<m_stateStack, idleEnabled, m_progressMonitor, uiPc, nPages,
                   task, pages, initOk, activeWorkers, idx, pageData, area,
                   cancelled, taskResult, retval, failed, calls, msgBoxes,
                   clipboard, rendered, stackBefore, stackTouched, dlgText, dlgStyleError, dict, shellVars, pageSegMode>>

\* monitor.increaseProgress(); if(monitor.cancelled()) break; and, after the
\* loop, return true
WorkerPageEnd ==
    /\ wpc = "pageEnd"
    /\ IF cancelled THEN Break ELSE Continue
    /\ UNCHANGED <<m_stateStack, idleEnabled, m_progressMonitor, uiPc, uiQueue,
                   nPages, task, pages, initOk, idx, pageData, area, cancelled,
                   retval, failed, calls, msgBoxes, clipboard, rendered,
                   stackBefore, stackTouched, dlgText, dlgStyleError, dict, shellVars, pageSegMode>>

\* ------------------------------- the UI thread executes what was posted
WaitAt(method) ==
    CASE method = "pushState" -> "waitPushState"
      [] method = "setPage" -> "waitSetPage"
      [] method = "popState" -> "waitPopState"

ResumeAt(method) ==
    CASE method = "pushState" -> "callSetPage"
      [] method = "setPage" -> "pageSetUp"
      [] method = "popState" -> "pageEnd"

\* A worker held at the blocking invocation of `method` goes on.
Release(method) == wpc' = IF wpc = WaitAt(method) THEN ResumeAt(method) ELSE wpc

\* pushState(State::Busy, "Recognizing page ..."), as posted by the worker
UiPushState ==
    /\ InEventLoop
    /\ uiQueue # <<>>
    /\ Head(uiQueue).method = "pushState"
    /\ uiQueue' = Tail(uiQueue)
    /\ DoPushState("Busy")
    /\ Release("pushState")
    /\ UNCHANGED <<m_progressMonitor, uiPc, nPages, task, pages, initOk,
                   activeWorkers, idx, pageData, area, cancelled, taskResult,
                   retval, failed, calls, msgBoxes, clipboard, rendered,
                   stackBefore, stackTouched, dlgText, dlgStyleError, dict, shellVars, pageSegMode>>

\* popState(), as posted by the worker
UiPopState ==
    /\ InEventLoop
    /\ uiQueue # <<>>
    /\ Head(uiQueue).method = "popState"
    /\ uiQueue' = Tail(uiQueue)
    /\ DoPopState
    /\ Release("popState")
    /\ UNCHANGED <<m_progressMonitor, uiPc, nPages, task, pages, initOk,
                   activeWorkers, idx, pageData, area, cancelled, taskResult,
                   retval, failed, calls, msgBoxes, clipboard, rendered,
                   stackBefore, stackTouched, dlgText, dlgStyleError, dict, shellVars, pageSegMode>>

\* Recognizer::setPage: Displayer::setup succeeds or not, and getOCRAreas
\* gives n areas; the PageData goes back to the worker through Q_RETURN_ARG,
\* which a blocking invocation fills.
setPage ==
    /\ InEventLoop
    /\ uiQueue # <<>>
    /\ Head(uiQueue).method = "setPage"
    /\ uiQueue' = Tail(uiQueue)
    /\ \E ok \in BOOLEAN, n \in 0..MaxAreas :
        LET result == IF ok THEN [success |-> TRUE, nAreas |-> n] ELSE NoPage IN
        /\ rendered' = Append(rendered, [page |-> Head(uiQueue).page,
                                         success |-> result.success,
                                         nAreas |-> result.nAreas])
        /\ pageData' = IF ConnectionType("setPage") = Blocking THEN result ELSE pageData
    /\ Release("setPage")
    /\ UNCHANGED <<m_stateStack, idleEnabled, m_progressMonitor, uiPc, nPages,
                   task, pages, initOk, activeWorkers, idx, area, cancelled,
                   taskResult, retval, failed, calls, msgBoxes, clipboard,
                   stackBefore, stackTouched, dlgText, dlgStyleError, dict, shellVars, pageSegMode>>

\* MainWindow::progressCancel: the cancel button of the progress widget, which
\* the handler disables
progressCancel ==
    /\ InEventLoop
    /\ m_progressMonitor
    /\ ~cancelled
    /\ cancelled' = TRUE
    /\ UNCHANGED <<m_stateStack, idleEnabled, m_progressMonitor, uiPc, uiQueue,
                   nPages, task, pages, initOk, wpc, activeWorkers, idx,
                   pageData, area, taskResult, retval, failed, calls, msgBoxes,
                   clipboard, rendered, stackBefore, stackTouched, dlgText, dlgStyleError, dict, shellVars, pageSegMode>>

\* MainWindow::progressUpdate: the timer's tick reads the progress of the
\* monitor installed, if any, into the progress bar (which is not modelled).
progressUpdate ==
    /\ InEventLoop
    /\ UNCHANGED vars

\* MainWindow::hideProgress: m_progressMonitor = nullptr
hideProgress_skipped(monitor) == monitor
hideProgress(monitor) == FALSE

\* MAIN->getOutputEditor()->finalizeRead(readSessionData)
finalizeRead_unlessCancelled(cs) ==
    IF cancelled THEN cs ELSE Append(cs, Call("finalizeRead", 0, 0))
finalizeRead(cs) == Append(cs, Call("finalizeRead", 0, 0))

\* if(!failed.isEmpty()) QMessageBox::critical(..., failed)
RecognitionErrors_always(f) == <<CriticalBox("Recognition errors occurred", f)>>
RecognitionErrors(f) ==
    IF f # <<>> THEN <<CriticalBox("Recognition errors occurred", f)>> ELSE <<>>

\* recognize() after busyTask: hideProgress, finalizeRead, and the message
\* box that lists the failed pages
recognizeEnd ==
    /\ BusyTaskDone
    /\ task = "pages"
    /\ m_progressMonitor' = hideProgress(m_progressMonitor)
    /\ calls' = finalizeRead(calls)
    /\ msgBoxes' = RecognitionErrors(failed)
    /\ uiPc' = "idle"
    /\ wpc' = "none"
    /\ UNCHANGED <<m_stateStack, idleEnabled, uiQueue, nPages, task, pages,
                   initOk, activeWorkers, idx, pageData, area, cancelled,
                   taskResult, retval, failed, clipboard, rendered,
                   stackBefore, stackTouched, dlgText, dlgStyleError, dict, shellVars, pageSegMode>>

\* -------------------------------------------- Recognizer::recognizeImage()
Destinations == {"buffer", "clipboard"}

\* recognizeImage(image, dest), up to the event loop of busyTask.  It is
\* called for the image on display, so with a document open.
recognizeImage(dest) ==
    /\ UserInputDeliverable
    /\ nPages >= 1
    /\ NewRequest(dest, <<>>)
    /\ pageSegMode' = <<>>
    /\ \E ok \in BOOLEAN :
        /\ initOk' = ok
        /\ IF ok
           THEN /\ msgBoxes' = <<>>
                /\ retval' = "none"
                /\ m_progressMonitor' = TRUE
                /\ calls' = IF dest = "buffer" THEN <<Call("initRead", 0, 0)>> ELSE <<>>
                /\ StartWorker("imageRecognize")
           ELSE /\ msgBoxes' = <<CriticalBox("Recognition errors occurred",
                                             "Failed to initialize tesseract")>>
                /\ retval' = FALSE
                /\ calls' = <<>>
                /\ uiPc' = "idle"
                /\ UNCHANGED <<m_progressMonitor, wpc, activeWorkers>>
    /\ UNCHANGED <<m_stateStack, idleEnabled, uiQueue, nPages, clipboard,
                   dlgText, dlgStyleError, shellVars>>

\* The lambda of recognizeImage: tess->Recognize(&monitor.desc)
WorkerImageRecognize ==
    /\ wpc = "imageRecognize"
    /\ calls' = Append(calls, Call("Recognize", 0, 1))
    /\ wpc' = "imageRecognized"
    /\ UNCHANGED <<m_stateStack, idleEnabled, m_progressMonitor, uiPc, uiQueue,
                   nPages, task, pages, initOk, activeWorkers, idx, pageData,
                   area, cancelled, taskResult, retval, failed, msgBoxes,
                   clipboard, rendered, stackBefore, stackTouched, dlgText, dlgStyleError, dict, shellVars, pageSegMode>>

\* The rest of the lambda: unless cancelled, read (Buffer) or GetUTF8Text
\* (Clipboard); the Clipboard lambda returns false when cancelled.
WorkerImageRead ==
    /\ wpc = "imageRecognized"
    /\ calls' = Relay(calls, Call(IF task = "buffer" THEN "read" ELSE "GetUTF8Text", 0, 1))
    /\ WorkerReturn(task = "buffer" \/ ~cancelled)
    /\ UNCHANGED <<m_stateStack, idleEnabled, m_progressMonitor, uiPc, uiQueue,
                   nPages, task, pages, initOk, idx, pageData, area, cancelled,
                   retval, failed, msgBoxes, clipboard, rendered, stackBefore, stackTouched,
                   dlgText, dlgStyleError, dict, shellVars, pageSegMode>>

\* if(Utils::busyTask(...)) QApplication::clipboard()->setText(output): the
\* clipboard's text after the Clipboard branch, given what busyTask returned.
ClipboardAfter_always(dest, result, text) == "ocr"
ClipboardAfter(dest, result, text) ==
    IF dest = "clipboard" /\ result = TRUE THEN "ocr" ELSE text

\* recognizeImage() after busyTask: finalizeRead (Buffer) or the clipboard's
\* new text (Clipboard, when the lambda returned true), hideProgress, return true
recognizeImageEnd ==
    /\ BusyTaskDone
    /\ task \in Destinations
    /\ calls' = IF task = "buffer" THEN finalizeRead(calls) ELSE calls
    /\ clipboard' = ClipboardAfter(task, taskResult, clipboard)
    /\ m_progressMonitor' = hideProgress(m_progressMonitor)
    /\ retval' = TRUE
    /\ uiPc' = "idle"
    /\ wpc' = "none"
    /\ UNCHANGED <<m_stateStack, idleEnabled, uiQueue, nPages, task, pages,
                   initOk, activeWorkers, idx, pageData, area, cancelled,
                   taskResult, failed, msgBoxes, rendered, stackBefore, stackTouched,
                   dlgText, dlgStyleError, dict, shellVars, pageSegMode>>

\* Something else takes the clipboard.
clipboardChanged ==
    /\ uiPc = "idle"
    /\ clipboard = "ocr"
    /\ clipboard' = "other"
    /\ UNCHANGED <<m_stateStack, idleEnabled, m_progressMonitor, uiPc, uiQueue,
                   nPages, task, pages, initOk, wpc, activeWorkers, idx,
                   pageData, area, cancelled, taskResult, retval, failed, calls,
                   msgBoxes, rendered, stackBefore, stackTouched, dlgText, dlgStyleError, dict, shellVars, pageSegMode>>

\* ------------------------------------------ the language menu's handlers
WarningBox(title, detail) == [icon |-> "warning", title |-> title, detail |-> detail]

\* What the handlers of the language menu and of the notifications leave alone.
LangUnchanged ==
    UNCHANGED <<m_stateStack, idleEnabled, m_progressMonitor, uiPc, uiQueue, nPages,
                task, pages, initOk, wpc, activeWorkers, idx, pageData, area,
                cancelled, taskResult, retval, failed, calls, clipboard, rendered,
                stackBefore, stackTouched, dlgText, dlgStyleError, dict, closeEv,
                psm, pageSegMode, crashVars, sessionVars>>

\* The menus and the notifications' buttons take user input: in the event
\* loop, and inside the DBus call of dictionaryAutoinstall (BlockWithGui).
MenuInputDeliverable == UserInputDeliverable \/ (uiPc = "dictionary" /\ dict.pc = "packageKit")

\* A handler has selected a language: m_curLang and the setting are written,
\* and MainWindow::languageChanged runs for each signal emitted (the
\* connection of line 267 is direct).
Emit(selected, dicts, install) ==
    /\ m_curLang' = selected.m_curLang
    /\ languageSetting' = selected.languageSetting
    /\ IF selected.emitted = <<>>
       THEN UNCHANGED <<announced, m_notifierHandle, notifications>>
       ELSE LET shown == languageChanged(selected.emitted[1], m_notifierHandle,
                                         notifications, dicts, install)
            IN  /\ announced' = selected.emitted
                /\ m_notifierHandle' = shown.m_notifierHandle
                /\ notifications' = shown.notifications

\* Recognizer::updateLanguagesMenu as a call: the menu is rebuilt from the
\* setting and from what is installed, and the warning box of line 862.
DoUpdateLanguagesMenu(avail, dicts, install) ==
    LET menu == updateLanguagesMenu(languageSetting, avail, dicts)
    IN  /\ menuLanguages' = menu.menuLanguages
        /\ radioItems' = menu.radioItems
        /\ menuChecked' = menu.menuChecked
        /\ psmChecked' = PsmChecked(psm)
        /\ Emit(menu.selected, dicts, install)

UpdateBoxes(avail) ==
    IF avail = {} THEN <<WarningBox("No languages available",
                                    "No tesseract languages are available for use.")>>
    ELSE <<>>

\* A frame is left for a notification the handler may add.
FrameLeft == Cardinality(notifications) < MaxFrames

\* actionRedetectLanguages triggered: updateLanguagesMenu (line 257)
redetectLanguages ==
    /\ MenuInputDeliverable /\ FrameLeft
    /\ DoUpdateLanguagesMenu(availLanguages, spellDicts, dictinstall)
    /\ msgBoxes' = UpdateBoxes(availLanguages)
    /\ UNCHANGED <<availLanguages, spellDicts, dictinstall>>
    /\ LangUnchanged

\* MainWindow::showConfig: the configuration dialog, in which "dictinstall"
\* may be switched, and then updateLanguagesMenu
showConfig ==
    /\ MenuInputDeliverable /\ FrameLeft
    /\ \E install \in BOOLEAN :
        /\ dictinstall' = install
        /\ DoUpdateLanguagesMenu(availLanguages, spellDicts, install)
    /\ msgBoxes' = UpdateBoxes(availLanguages)
    /\ UNCHANGED <<availLanguages, spellDicts>>
    /\ LangUnchanged

\* A language item is triggered: it becomes the checked item of its group,
\* and Recognizer::setLanguage runs with it as sender.
languageItemTriggered ==
    /\ MenuInputDeliverable /\ FrameLeft
    /\ \E i \in 1..Len(radioItems) : Emit(setLanguage(radioItems[i]), spellDicts, dictinstall)
    /\ msgBoxes' = <<>>
    /\ UNCHANGED <<availLanguages, spellDicts, menuLanguages, radioItems, menuChecked,
                   dictinstall, psmChecked>>
    /\ LangUnchanged

\* An item of the multilingual menu is triggered (eventFilter, line 1263):
\* its check mark is toggled and Recognizer::setMultiLanguage runs.
multilingualItemTriggered ==
    /\ MenuInputDeliverable /\ FrameLeft
    /\ \E l \in Elements(CheckItems(menuLanguages)) :
        LET checked == IF l \in menuChecked THEN menuChecked \ {l} ELSE menuChecked \cup {l}
        IN  /\ menuChecked' = checked
            /\ Emit(setMultiLanguage(CheckItems(menuLanguages), checked), spellDicts, dictinstall)
    /\ msgBoxes' = <<>>
    /\ UNCHANGED <<availLanguages, spellDicts, menuLanguages, radioItems, dictinstall,
                   psmChecked>>
    /\ LangUnchanged

\* The "Multilingual" item itself is clicked (eventFilter, lines 1251-1256):
\* it is toggled, and setMultiLanguage runs if it is checked then.  It is
\* checked before the click only when the language is a multilingual one.
multilingualActionClicked ==
    /\ MenuInputDeliverable /\ FrameLeft
    /\ menuLanguages # <<>>
    /\ \E wasChecked \in (IF m_curLang.name = <<"Multilingual">> THEN BOOLEAN ELSE {FALSE}) :
        IF ~wasChecked
        THEN Emit(setMultiLanguage(CheckItems(menuLanguages), menuChecked), spellDicts, dictinstall)
        ELSE UNCHANGED <<m_curLang, languageSetting, announced, m_notifierHandle, notifications>>
    /\ msgBoxes' = <<>>
    /\ UNCHANGED <<availLanguages, spellDicts, menuLanguages, radioItems, menuChecked,
                   dictinstall, psmChecked>>
    /\ LangUnchanged

\* hideNotification() as the slot of a notification's close button or of its
\* "Don't show again" button (Config::disableDictInstall first): the frame
\* and the handle are the sender's properties, the handle is cleared and the
\* frame deleted.
SenderClearsHandle(handle) == 0

notificationClosed ==
    /\ MenuInputDeliverable
    /\ \E frame \in notifications, dontShowAgain \in BOOLEAN :
        /\ dictinstall' = (dictinstall /\ ~dontShowAgain)
        /\ m_notifierHandle' = SenderClearsHandle(m_notifierHandle)
        /\ notifications' = hideNotification(notifications, frame)
    /\ msgBoxes' = <<>>
    /\ UNCHANGED <<m_curLang, languageSetting, availLanguages, spellDicts, menuLanguages,
                   radioItems, menuChecked, announced, psmChecked>>
    /\ LangUnchanged

\* An entry of the page segmentation menu is triggered; an entry that requires
\* "osd" is disabled when the menu was built without it.  The entry becomes
\* the checked one of its exclusive group, and Recognizer::psmSelected stores
\* its mode.
psmSelected ==
    /\ MenuInputDeliverable
    /\ \E psmMode \in PsmModes :
        /\ psmMode \in OsdModes => "osd" \in Elements(menuLanguages)
        /\ psmChecked' = {psmMode}
        /\ psm' = psmMode
    /\ msgBoxes' = <<>>
    /\ UNCHANGED <<m_stateStack, idleEnabled, m_progressMonitor, uiPc, uiQueue, nPages,
                   task, pages, initOk, wpc, activeWorkers, idx, pageData, area,
                   cancelled, taskResult, retval, failed, calls, clipboard, rendered,
                   stackBefore, stackTouched, dlgText, dlgStyleError, dict, closeEv,
                   pageSegMode, crashVars, sessionVars>>
    /\ UNCHANGED <<m_curLang, languageSetting, availLanguages, spellDicts, menuLanguages,
                   radioItems, menuChecked, announced, m_notifierHandle, notifications,
                   dictinstall>>

\* Tesseract language data is installed or removed (the tessdata manager,
\* the package manager, a changed data location).
tessdataChanged ==
    /\ uiPc = "idle"
    /\ \E avail \in SUBSET Elements(Tessdata) :
        avail # availLanguages /\ availLanguages' = avail
    /\ UNCHANGED <<m_curLang, languageSetting, spellDicts, menuLanguages, radioItems,
                   menuChecked, announced, m_notifierHandle, notifications, dictinstall,
                   psmChecked, msgBoxes>>
    /\ LangUnchanged

\* Spelling dictionaries are installed or removed outside the program.
spellDictsChanged ==
    /\ uiPc = "idle"
    /\ \E dicts \in SUBSET Elements(SpellingDicts) :
        dicts # spellDicts /\ spellDicts' = dicts
    /\ UNCHANGED <<m_curLang, languageSetting, availLanguages, menuLanguages, radioItems,
                   menuChecked, announced, m_notifierHandle, notifications, dictinstall,
                   psmChecked, msgBoxes>>
    /\ LangUnchanged

\* ------------------------------------- MainWindow::dictionaryAutoinstall()
\* The builds: Q_OS_LINUX, Q_OS_WIN, and any other system.
Platforms == {"linux", "windows", "other"}

\* dictionaryAutoinstall's locals: code, the language directories and
\* dictionary files still to handle, `downloaded` and `failed` (their sizes),
\* and whether a download has failed so far (history).
DictAt(pc, code) == [pc |-> pc, code |-> code, langs |-> 0, files |-> 0, downloaded |-> 0,
                     failed |-> 0, lost |-> FALSE]

\* The dictionaries the installer may bring: those of the code's language
DictsFor(code) == {d \in Elements(SpellingDicts) : Left2(<<d>>) = Left2(code)}

DictUnchanged ==
    UNCHANGED <<m_progressMonitor, uiQueue, nPages, task, pages, initOk, wpc,
                activeWorkers, idx, pageData, area, cancelled, taskResult,
                retval, failed, calls, clipboard, rendered, stackBefore, stackTouched,
                dlgText, dlgStyleError, closeEv, psm, pageSegMode,
                crashVars, sessionVars>>

\* The handler is entered: what the request before it left is of no use.
DictEntered ==
    /\ task' = "none" /\ pages' = <<>> /\ initOk' = FALSE
    /\ idx' = 0 /\ area' = 0 /\ pageData' = NoPage /\ cancelled' = FALSE
    /\ taskResult' = "none" /\ retval' = "none" /\ failed' = <<>>
    /\ calls' = <<>> /\ rendered' = <<>> /\ stackBefore' = m_stateStack
    /\ stackTouched' = FALSE /\ pageSegMode' = <<>>
    /\ UNCHANGED <<m_progressMonitor, uiQueue, nPages, wpc, activeWorkers,
                   clipboard, dlgText, dlgStyleError, shellVars>>

\* The handler ends.
DictReturn(d) == dict' = [d EXCEPT !.pc = "done"] /\ uiPc' = "idle"

\* The entry, from the "Install" button of the notification (line 576):
\* pushState(Busy, "Installing spelling dictionary ...") and the
\* choice between PackageKit (system data locations, not on Windows) and the
\* download from the LibreOffice repository.
dictionaryAutoinstall ==
    /\ UserInputDeliverable
    /\ notifications # {}
    /\ Len(m_stateStack) < MaxStack
    /\ DoPushState("Busy")
    /\ uiPc' = "dictionary"
    /\ msgBoxes' = <<>>
    /\ \E platform \in Platforms, useSystemDataLocations \in BOOLEAN :
        dict' = DictAt(IF platform # "windows" /\ useSystemDataLocations
                       THEN (IF platform = "linux" THEN "packageKit" ELSE "noInstaller")
                       ELSE "mkpath",
                       m_curLang.code)
    /\ DictEntered

\* #ifdef Q_OS_LINUX: InstallProvideFiles over DBus, a message box when the
\* reply is an error, updateLanguagesMenu, popState
dictPackageKit ==
    /\ uiPc = "dictionary" /\ dict.pc = "packageKit"
    /\ FrameLeft
    /\ \E error \in BOOLEAN, installed \in SUBSET DictsFor(dict.code) :
        LET dicts == IF error THEN spellDicts ELSE spellDicts \cup installed
        IN  /\ spellDicts' = dicts
            /\ msgBoxes' = (IF error
                            THEN <<CriticalBox("Error", "Failed to install spelling dictionary")>>
                            ELSE <<>>) \o UpdateBoxes(availLanguages)
            /\ DoUpdateLanguagesMenu(availLanguages, dicts, dictinstall)
    /\ UNCHANGED <<availLanguages, dictinstall>>
    /\ DoPopState
    /\ DictReturn(dict)
    /\ DictUnchanged

\* System data locations on a system that is neither Linux nor Windows: the
\* branch is empty.
dictNoInstaller ==
    /\ uiPc = "dictionary" /\ dict.pc = "noInstaller"
    /\ DictReturn(dict)
    /\ UNCHANGED <<m_stateStack, idleEnabled, msgBoxes>>
    /\ UNCHANGED langVars
    /\ DictUnchanged

\* QDir().mkpath(spellingDir): on failure popState, a message box, return
dictMkpath ==
    /\ uiPc = "dictionary" /\ dict.pc = "mkpath"
    /\ \E ok \in BOOLEAN :
        IF ok
        THEN /\ dict' = [dict EXCEPT !.pc = "index"]
             /\ UNCHANGED <<m_stateStack, idleEnabled, uiPc, msgBoxes>>
        ELSE /\ DoPopState
             /\ msgBoxes' = <<CriticalBox("Error", "Failed to create directory for spelling dictionaries.")>>
             /\ DictReturn(dict)
    /\ UNCHANGED langVars
    /\ DictUnchanged

\* Utils::download(url): an empty page (html = -1) is popState, a message box,
\* return; any other page names html >= 0 language directories (langPat).
dictIndex ==
    /\ uiPc = "dictionary" /\ dict.pc = "index"
    /\ \E html \in (-1)..MaxLangs :
        IF html = -1
        THEN /\ DoPopState
             /\ msgBoxes' = <<CriticalBox("Error", "Could not read")>>
             /\ DictReturn([dict EXCEPT !.lost = TRUE])
        ELSE /\ dict' = [dict EXCEPT !.pc = "loop", !.langs = html]
             /\ UNCHANGED <<m_stateStack, idleEnabled, uiPc, msgBoxes>>
    /\ UNCHANGED langVars
    /\ DictUnchanged

\* while(langPat.indexIn(html, pos) != -1): the directory listing of the next
\* language; an empty listing (dictHtml = -1) is `continue`, any other names
\* dictHtml >= 0 files (dictPat).
dictListing ==
    /\ uiPc = "dictionary" /\ dict.pc = "loop"
    /\ dict.files = 0 /\ dict.langs > 0
    /\ \E dictHtml \in (-1)..MaxFiles :
        dict' = IF dictHtml = -1
                THEN [dict EXCEPT !.langs = @ - 1, !.lost = TRUE]
                ELSE [dict EXCEPT !.langs = @ - 1, !.files = dictHtml]
    /\ UNCHANGED <<m_stateStack, idleEnabled, uiPc, msgBoxes>>
    /\ UNCHANGED langVars
    /\ DictUnchanged

\* pushState(Busy, "Downloading '<file>'...")
dictFilePush ==
    /\ uiPc = "dictionary" /\ dict.pc = "loop"
    /\ dict.files > 0
    /\ DoPushState("Busy")
    /\ dict' = [dict EXCEPT !.pc = "downloading"]
    /\ UNCHANGED <<uiPc, msgBoxes>>
    /\ UNCHANGED langVars
    /\ DictUnchanged

\* The file's download: saved, or no data, or a file that cannot be opened
\* for writing; then popState
dictFileDownload ==
    /\ uiPc = "dictionary" /\ dict.pc = "downloading"
    /\ \E outcome \in {"saved", "noData", "notWritable"}, installed \in SUBSET DictsFor(dict.code) :
        /\ dict' = IF outcome = "saved"
                   THEN [dict EXCEPT !.pc = "loop", !.files = @ - 1, !.downloaded = @ + 1]
                   ELSE [dict EXCEPT !.pc = "loop", !.files = @ - 1, !.failed = @ + 1,
                                     !.lost = TRUE]
        /\ spellDicts' = IF outcome = "saved" THEN spellDicts \cup installed ELSE spellDicts
    /\ UNCHANGED <<m_curLang, languageSetting, availLanguages, menuLanguages, radioItems,
                   menuChecked, announced, m_notifierHandle, notifications, dictinstall,
                   psmChecked>>
    /\ DoPopState
    /\ UNCHANGED <<uiPc, msgBoxes>>
    /\ DictUnchanged

\* After the loops: popState, and one of the three message boxes
dictFinish ==
    /\ uiPc = "dictionary" /\ dict.pc = "loop"
    /\ dict.files = 0 /\ dict.langs = 0
    /\ FrameLeft
    /\ DoPopState
    /\ msgBoxes' =
        IF dict.failed > 0
        THEN <<CriticalBox("Error", "The following dictionaries could not be downloaded")>>
        ELSE IF dict.downloaded > 0
        THEN UpdateBoxes(availLanguages)
             \o <<InfoBox("Dictionaries installed", "The following dictionary files were installed")>>
        ELSE <<CriticalBox("Error", "No spelling dictionaries found")>>
    /\ IF dict.failed = 0 /\ dict.downloaded > 0
       THEN /\ DoUpdateLanguagesMenu(availLanguages, spellDicts, dictinstall)
            /\ UNCHANGED <<availLanguages, spellDicts, dictinstall>>
       ELSE UNCHANGED langVars
    /\ DictReturn(dict)
    /\ DictUnchanged

\* ------------------------------------ the output editor and the crash handler
\* What the output editor's life and the crash handler leave alone.
CrashUnchanged ==
    UNCHANGED <<m_stateStack, idleEnabled, m_progressMonitor, uiPc, uiQueue, nPages,
                task, pages, initOk, wpc, activeWorkers, idx, pageData, area,
                cancelled, taskResult, retval, failed, calls, msgBoxes, clipboard,
                rendered, stackBefore, stackTouched, dlgText, dlgStyleError, dict,
                closeEv, langVars, psm, pageSegMode, sessionVars>>

\* The text of the output editor is changed (recognized text is added, the
\* user types) or saved: what getModified() returns changes.
outputEdited ==
    /\ mainPc = "run"
    /\ m_outputEditor = "live"
    /\ modified' = ~modified
    /\ UNCHANGED <<m_outputEditor, crashFiles, mainPc, crash>>
    /\ CrashUnchanged

\* MainWindow::setOCRMode up to line 444: when clear() of the editor returns
\* true, which leaves it unmodified, the editor is deleted; m_outputEditor
\* keeps pointing to it.  When clear() returns false the combo box is reset.
setOCRMode ==
    /\ mainPc = "run"
    /\ \E cleared \in BOOLEAN :
        /\ ~modified => cleared
        /\ IF cleared
           THEN /\ m_outputEditor' = "deleted"
                /\ modified' = FALSE
                /\ mainPc' = "setOCRMode"
           ELSE UNCHANGED <<m_outputEditor, modified, mainPc>>
    /\ UNCHANGED <<crashFiles, crash>>
    /\ CrashUnchanged

\* MainWindow::setOCRMode from line 445: the new editor is constructed and
\* assigned to m_outputEditor.
setOCRModeNew ==
    /\ mainPc = "setOCRMode"
    /\ m_outputEditor' = "live"
    /\ mainPc' = "run"
    /\ UNCHANGED <<modified, crashFiles, crash>>
    /\ CrashUnchanged

\* MainWindow::~MainWindow up to line 320: the editor is deleted, the
\* destructor goes on with the handlers installed.
destructor ==
    /\ mainPc = "run"
    /\ m_outputEditor' = "deleted"
    /\ mainPc' = "destructor"
    /\ UNCHANGED <<modified, crashFiles, crash>>
    /\ CrashUnchanged

\* A crash-save file appears in the documents folder, or one is removed.
crashFilesChanged ==
    /\ mainPc # "crashed"
    /\ \E i \in 0..(MaxCrashFiles - 1) :
        crashFiles' = IF i \in crashFiles THEN crashFiles \ {i} ELSE crashFiles \cup {i}
    /\ UNCHANGED <<m_outputEditor, modified, mainPc, crash>>
    /\ CrashUnchanged

\* MainWindow::signalHandlerExec: the text of a modified editor is saved to
\* the first free crash-save name, then the crash handler process is run and
\* the signal raised again, which ends the program.
signalHandlerExec ==
    /\ mainPc # "crashed"
    /\ \E c \in Crashes, isModified \in getModified(m_outputEditor, modified) :
        LET filename == IF isModified THEN <<crashSaveName(crashFiles)>> ELSE <<>>
        IN  /\ crashFiles' = crashFiles \cup Elements(filename)
            /\ crash' = [signal |-> c[1], tesseractCrash |-> c[2],
                         existed |-> crashFiles, filename |-> filename]
    /\ mainPc' = "crashed"
    /\ UNCHANGED <<m_outputEditor, modified>>
    /\ CrashUnchanged

\* ------------------------------------------- the read session of recognize()
\* What the read session leaves alone.
SessionUnchanged ==
    UNCHANGED <<m_stateStack, idleEnabled, m_progressMonitor, uiPc, uiQueue, nPages,
                task, pages, initOk, wpc, activeWorkers, idx, pageData, area,
                cancelled, taskResult, retval, failed, calls, msgBoxes, clipboard,
                rendered, stackBefore, stackTouched, dlgText, dlgStyleError, dict,
                closeEv, langVars, psm, pageSegMode, crashVars>>

\* The two switches of the configuration dialog, between two requests.
sourceSettingChanged ==
    /\ session.pc \in {"none", "done"}
    /\ \/ ocraddsourcefilename' = ~ocraddsourcefilename /\ UNCHANGED ocraddsourcepage
       \/ ocraddsourcepage' = ~ocraddsourcepage /\ UNCHANGED ocraddsourcefilename
    /\ UNCHANGED <<prependFile, prependPage, prevFile, firstChunk, newFile,
                   readSessionData, session>>
    /\ SessionUnchanged

\* recognize() with a list of npages pages and tesseract initialised: the
\* two flags, initRead, and the lambda up to its loop.
sessionBegin ==
    /\ session.pc \in {"none", "done"}
    /\ \E npages \in 0..MaxSessionPages :
        /\ prependFile' = (npages > 1 /\ ocraddsourcefilename)
        /\ prependPage' = (npages > 1 /\ ocraddsourcepage)
        /\ session' = [NoLoop EXCEPT !.pc = "loopHead", !.npages = npages]
    /\ readSessionData' = NoSession
    /\ prevFile' = <<>>
    /\ UNCHANGED <<ocraddsourcefilename, ocraddsourcepage, firstChunk, newFile>>
    /\ SessionUnchanged

\* The next page of the list: setPage fails and the loop continues, or the
\* session data is filled in from the PageData.
sessionPage ==
    /\ session.pc = "loopHead"
    /\ session.idx < session.npages
    /\ \E success \in BOOLEAN, filename \in Files, nAreas \in 0..MaxAreas :
        IF ~success
        THEN /\ session' = [session EXCEPT !.idx = @ + 1]
             /\ UNCHANGED <<readSessionData, firstChunk, newFile, prevFile>>
        ELSE /\ readSessionData' = [readSessionData EXCEPT !.file = filename]
             /\ firstChunk' = TRUE
             /\ newFile' = (filename # prevFile)
             /\ prevFile' = filename
             /\ session' = [session EXCEPT !.idx = @ + 1, !.pc = "areaLoop",
                                           !.nAreas = nAreas, !.area = 0,
                                           !.setUp = Append(@, filename)]
    /\ UNCHANGED <<ocraddsourcefilename, ocraddsourcepage, prependFile, prependPage>>
    /\ SessionUnchanged

\* The next OCR area of the page: the two flags of the session data are set,
\* the area is recognized and, unless cancelled, read.
sessionArea ==
    /\ session.pc = "areaLoop"
    /\ session.area < session.nAreas
    /\ LET sessionPrependPage == PrependPageOf(prependPage, firstChunk)
       IN  readSessionData' = [readSessionData EXCEPT
               !.prependPage = sessionPrependPage,
               !.prependFile = PrependFileOf(prependFile, sessionPrependPage, newFile)]
    /\ firstChunk' = FALSE
    /\ newFile' = FALSE
    /\ session' = [session EXCEPT !.area = @ + 1]
    /\ UNCHANGED <<ocraddsourcefilename, ocraddsourcepage, prependFile, prependPage,
                   prevFile>>
    /\ SessionUnchanged

\* After the areas of the page: the loop is left when the monitor is
\* cancelled, and goes on otherwise.
sessionPageEnd ==
    /\ session.pc = "areaLoop"
    /\ session.area = session.nAreas
    /\ \E monitorCancelled \in BOOLEAN :
        session' = [session EXCEPT !.pc = IF monitorCancelled THEN "done" ELSE "loopHead"]
    /\ UNCHANGED <<ocraddsourcefilename, ocraddsourcepage, prependFile, prependPage,
                   prevFile, firstChunk, newFile, readSessionData>>
    /\ SessionUnchanged

\* The list is exhausted.
sessionEnd ==
    /\ session.pc = "loopHead"
    /\ session.idx = session.npages
    /\ session' = [session EXCEPT !.pc = "done"]
    /\ UNCHANGED <<ocraddsourcefilename, ocraddsourcepage, prependFile, prependPage,
                   prevFile, firstChunk, newFile, readSessionData>>
    /\ SessionUnchanged

\* ---------------------------------------------------------- specifications
Next ==
    \/ onSourceChanged
    \/ recognizeButtonClicked
    \/ menuPagesDismissed
    \/ recognizeCurrentPage
    \/ recognizeMultiplePages
    \/ \E t \in Edits(dlgText, PlainTokens, PlainTexts) : editPageRange(t)
    \/ pagesDialogAccepted
    \/ pagesDialogRejected
    \/ WorkerNextPage
    \/ WorkerCallSetPage
    \/ WorkerLoopEnd
    \/ WorkerPageFailed
    \/ WorkerPageOk
    \/ WorkerRecognize
    \/ WorkerRead
    \/ WorkerPopState
    \/ WorkerPageEnd
    \/ UiPushState
    \/ UiPopState
    \/ setPage
    \/ progressCancel
    \/ progressUpdate
    \/ recognizeEnd
    \/ \E dest \in Destinations : recognizeImage(dest)
    \/ WorkerImageRecognize
    \/ WorkerImageRead
    \/ recognizeImageEnd
    \/ clipboardChanged
    \/ dictionaryAutoinstall
    \/ dictPackageKit
    \/ dictNoInstaller
    \/ dictMkpath
    \/ dictIndex
    \/ dictListing
    \/ dictFilePush
    \/ dictFileDownload
    \/ dictFinish

Spec == Init /\ [][Next]_vars

\* selectPages on its own: a document of several pages is open and the menu
\* of the recognize button is up; the texts are the rich ones.
InitPages ==
    /\ m_stateStack = <<"Idle", "Normal">>
    /\ idleEnabled = TRUE
    /\ m_progressMonitor = FALSE
    /\ uiPc = "menuPages"
    /\ uiQueue = <<>>
    /\ nPages \in 2..(MaxNPages + 1)
    /\ task = "none"
    /\ pages = <<>>
    /\ initOk = FALSE
    /\ wpc = "none"
    /\ activeWorkers = 0
    /\ idx = 0
    /\ pageData = NoPage
    /\ area = 0
    /\ cancelled = FALSE
    /\ taskResult = "none"
    /\ retval = "none"
    /\ failed = <<>>
    /\ calls = <<>>
    /\ msgBoxes = <<>>
    /\ clipboard = "other"
    /\ rendered = <<>>
    /\ stackBefore = <<"Idle", "Normal">>
    /\ stackTouched = FALSE
    /\ dlgText = <<>>
    /\ dlgStyleError = FALSE
    /\ dict = NoDict
    /\ ShellInit

NextPages ==
    \/ recognizeMultiplePages
    \/ \E t \in Edits(dlgText, RichTokens, RichTexts) : editPageRange(t)
    \/ pagesDialogAccepted
    \/ pagesDialogRejected

SpecPages == InitPages /\ [][NextPages]_vars

\* MainWindow on its own, without recognition requests: the sources, the
\* close requests and the dictionary installer.
NextShell ==
    \/ onSourceChanged
    \/ closeEvent
    \/ dictionaryAutoinstall
    \/ dictPackageKit
    \/ dictNoInstaller
    \/ dictMkpath
    \/ dictIndex
    \/ dictListing
    \/ dictFilePush
    \/ dictFileDownload
    \/ dictFinish

SpecShell == Init /\ [][NextShell]_vars

\* The notifications: the language menu, the notifications' buttons and the
\* dictionary installer behind the "Install" button.
NextNotify ==
    \/ redetectLanguages
    \/ showConfig
    \/ languageItemTriggered
    \/ multilingualItemTriggered
    \/ multilingualActionClicked
    \/ notificationClosed
    \/ dictionaryAutoinstall
    \/ dictPackageKit
    \/ dictNoInstaller
    \/ dictMkpath
    \/ dictIndex
    \/ dictListing
    \/ dictFilePush
    \/ dictFileDownload
    \/ dictFinish

SpecNotify == Init /\ [][NextNotify]_vars

\* The language menu and the notifications on their own, with the languages
\* and the dictionaries installed and removed at any time.
NextLang ==
    \/ redetectLanguages
    \/ showConfig
    \/ languageItemTriggered
    \/ multilingualItemTriggered
    \/ multilingualActionClicked
    \/ notificationClosed
    \/ tessdataChanged
    \/ spellDictsChanged

SpecLang == Init /\ [][NextLang]_vars

\* The page segmentation mode: its menu, the rebuilds of the menu, and the
\* recognition of single pages.
NextPsm ==
    \/ psmSelected
    \/ redetectLanguages
    \/ onSourceChanged
    \/ recognizeButtonClicked
    \/ menuPagesDismissed
    \/ recognizeCurrentPage
    \/ WorkerNextPage
    \/ WorkerCallSetPage
    \/ WorkerLoopEnd
    \/ WorkerPageFailed
    \/ WorkerPageOk
    \/ WorkerRecognize
    \/ WorkerRead
    \/ WorkerPopState
    \/ WorkerPageEnd
    \/ UiPushState
    \/ UiPopState
    \/ setPage
    \/ progressCancel
    \/ progressUpdate
    \/ recognizeEnd

SpecPsm == Init /\ [][NextPsm]_vars

\* The life of the output editor, with a crash at any point of it.
NextCrash ==
    \/ outputEdited
    \/ setOCRMode
    \/ setOCRModeNew
    \/ destructor
    \/ crashFilesChanged
    \/ signalHandlerExec

SpecCrash == Init /\ [][NextCrash]_vars

\* The read session of recognize(), request after request.
NextSession ==
    \/ sourceSettingChanged
    \/ sessionBegin
    \/ sessionPage
    \/ sessionArea
    \/ sessionPageEnd
    \/ sessionEnd

SpecSession == Init /\ [][NextSession]_vars

\* ------------------------------------------------------------- properties
\* A recognize() request whose tesseract initialisation succeeded.
PagesSession == task = "pages" /\ initOk

\* A session that calls the OutputEditor: recognize(), recognizeImage(Buffer).
ReadSession == task \in {"pages", "buffer"} /\ initOk

\* The worker's lambda has returned.
WorkerDone == wpc \in {"finished", "none"}

\* The request has returned to the event loop.
SessionOver == wpc = "none"

IsInitRead(c) == c.op = "initRead"
IsFinalizeRead(c) == c.op = "finalizeRead"
IsRecognize(c) == c.op = "Recognize"
IsFailure(r) == ~r.success

\* C1: in a session of recognize() or recognizeImage(Buffer) with tesseract
\* initialised, initRead is called exactly once and is the first call of the
\* session; finalizeRead is not called while the session runs, and once the
\* session is over it has been called exactly once, as the last call of all.
C1_InitOnceFinalizeOnce ==
    ReadSession =>
        /\ calls # <<>>
        /\ IsInitRead(calls[1])
        /\ Len(SelectSeq(calls, IsInitRead)) = 1
        /\ IF SessionOver
           THEN /\ Len(SelectSeq(calls, IsFinalizeRead)) = 1
                /\ IsFinalizeRead(Last(calls))
           ELSE SelectSeq(calls, IsFinalizeRead) = <<>>

\* C1 witness: a cancelled session over two pages is over, a page failed to
\* render, another was read, and finalizeRead closes the session.
C1_Witness ==
    /\ PagesSession /\ SessionOver /\ cancelled
    /\ \E k \in 1..Len(calls) : calls[k].op = "readError"
    /\ \E k \in 1..Len(calls) : calls[k].op = "read"
    /\ IsFinalizeRead(Last(calls))

\* C2: when setPage has reported failure for entry i of the list and the
\* worker has handled that report, readError has been called exactly once for
\* the entry and no Recognize or read is ever called for it; and the loop does
\* not stop at a failed page: the worker returns only at the end of the list,
\* or after a page that was set up, when the recognition is cancelled.
C2_FailedPageOnlyAborted ==
    PagesSession =>
        /\ \A i \in 1..Len(rendered) :
            ~rendered[i].success =>
                /\ \A k \in 1..Len(calls) :
                       calls[k].i = i => calls[k].op = "readError"
                /\ Count(Call("readError", i, 0), calls)
                       = IF i = idx /\ wpc = "pageSetUp" THEN 0 ELSE 1
        /\ WorkerDone =>
               \/ idx = Len(pages)
               \/ /\ idx \in 1..Len(rendered)
                  /\ rendered[idx].success
                  /\ cancelled

\* C2 witness: of two pages the first failed to render, and the second was
\* set up, recognised and read.
C2_Witness ==
    /\ PagesSession /\ SessionOver
    /\ Len(rendered) = 2
    /\ ~rendered[1].success /\ rendered[2].success
    /\ \E k \in 1..Len(calls) : calls[k].op = "read" /\ calls[k].i = 2

\* C3, as the spec states it: a recognition request whose tesseract
\* initialisation failed has shown a critical message box.
C3_InitFailureShown ==
    (task \in {"pages", "buffer", "clipboard"} /\ ~initOk) =>
        \E k \in 1..Len(msgBoxes) : msgBoxes[k].icon = "critical"

\* C4, as the spec states it: every invocation the worker has posted holds
\* the worker at that call until the UI thread has executed it.
C4_AllInvocationsBlock ==
    \A k \in 1..Len(uiQueue) : wpc = WaitAt(uiQueue[k].method)

\* C4, amended: setPage alone is blocking.  While a setPage invocation is
\* pending the worker waits at it, it is the newest invocation and it is for
\* the worker's page; the worker waits only there and never at pushState or
\* popState; and when the worker goes on it holds the PageData that the UI
\* thread's setPage produced for that page.
C4_OnlySetPageBlocks ==
    /\ \A k \in 1..Len(uiQueue) :
           uiQueue[k].method = "setPage" =>
               wpc = "waitSetPage" /\ k = Len(uiQueue) /\ uiQueue[k].i = idx
    /\ wpc = "waitSetPage" => (uiQueue # <<>> /\ Last(uiQueue).method = "setPage")
    /\ wpc \notin {"waitPushState", "waitPopState"}
    /\ wpc = "pageSetUp" =>
           /\ Len(rendered) = idx
           /\ pageData = [success |-> rendered[idx].success,
                          nAreas |-> rendered[idx].nAreas]

\* C4 witness: the worker waits at setPage of its second page while the
\* popState of the first page and the pushState of the second are pending.
C4_Witness ==
    /\ wpc = "waitSetPage"
    /\ idx = 2
    /\ Len(uiQueue) = 3
    /\ uiQueue[1].method = "popState"
    /\ uiQueue[2].method = "pushState"

\* C5: at most one worker is active; while one is, the UI thread is inside
\* busyTask and the worker is at a step of its lambda; and a worker at a step
\* of its lambda is the one active worker.
C5_OneWorker ==
    /\ activeWorkers \in {0, 1}
    /\ activeWorkers = 1 => (uiPc = "busyTask" /\ ~WorkerDone)
    /\ ~WorkerDone => activeWorkers = 1

\* C5 witness: a worker runs while the state on top is Busy, in which
\* setState leaves the recognize button enabled.
C5_Witness ==
    /\ activeWorkers = 1
    /\ uiPc = "busyTask"
    /\ Last(m_stateStack) = "Busy"
    /\ idleEnabled

IsPrefix(s, t) == Len(s) <= Len(t) /\ s = SubSeq(t, 1, Len(s))

\* The Recognize calls the pages set up so far ask for: for each entry that
\* was set up, one per OCR area, in area order.
RECURSIVE ExpectedRecognize(_)
ExpectedRecognize(i) ==
    IF i > Len(rendered) THEN <<>>
    ELSE (IF rendered[i].success
          THEN [a \in 1..rendered[i].nAreas |-> Call("Recognize", i, a)]
          ELSE <<>>) \o ExpectedRecognize(i + 1)

\* C6: setPage is executed for the entries of the list in list order, one
\* entry at a time; the Recognize calls are, in order, those of the entries set
\* up (one per area, in area order), all of them once the worker has returned;
\* every read directly follows the Recognize of its area; and a Recognize that
\* is not directly followed by its read is the call the worker is at, or the
\* recognition is cancelled.
C6_PagesAndAreasInOrder ==
    PagesSession =>
        /\ Len(rendered) \in {idx - 1, idx}
        /\ Len(rendered) <= Len(pages)
        /\ \A i \in 1..Len(rendered) : rendered[i].page = pages[i]
        /\ IsPrefix(SelectSeq(calls, IsRecognize), ExpectedRecognize(1))
        /\ WorkerDone =>
               /\ SelectSeq(calls, IsRecognize) = ExpectedRecognize(1)
               /\ cancelled \/ idx = Len(pages)
        /\ \A k \in 1..Len(calls) :
            /\ calls[k].op = "read" =>
                   k > 1 /\ calls[k - 1] = Call("Recognize", calls[k].i, calls[k].a)
            /\ calls[k].op = "Recognize" =>
                   \/ k < Len(calls) /\ calls[k + 1] = Call("read", calls[k].i, calls[k].a)
                   \/ k = Len(calls) /\ wpc = "recognized"
                   \/ cancelled

\* C6 witness: two pages of two areas each, not cancelled: initRead, four
\* times Recognize and read, finalizeRead.
C6_Witness ==
    /\ PagesSession /\ SessionOver /\ ~cancelled
    /\ Len(rendered) = 2
    /\ \A i \in 1..2 : rendered[i].success /\ rendered[i].nAreas = 2
    /\ Len(calls) = 10

\* The value of a digit string as the reference reads it.  A value beyond
\* IntMax is beyond every page count, and stands for itself as IntMax.
RefValue(s) == LET v == DecimalFrom(s, 0) IN IF v = -1 THEN IntMax ELSE v

\* The pages a block contributes in the reference.
RefBlock(block, n) ==
    LET parts == Split(block, "-") IN
    IF Len(parts) = 1
    THEN (IF 1 <= RefValue(parts[1]) /\ RefValue(parts[1]) <= n
          THEN <<RefValue(parts[1])>> ELSE <<>>)
    ELSE Range(Max(1, RefValue(parts[1])), Min(n, RefValue(parts[2])))

RECURSIVE RefBlocks(_, _)
RefBlocks(blocks, n) ==
    IF blocks = <<>> THEN <<>>
    ELSE RefBlock(Head(blocks), n) \o RefBlocks(Tail(blocks), n)

\* The reference rejects the text.
RefRejects(text) ==
    \/ \E i \in 1..Len(text) : text[i] \notin Digits \cup {",", "-", " "}
    \/ LET blocks == Split(RemoveSpaces(text), ",") IN
       \E b \in 1..Len(blocks) : Len(Split(blocks[b], "-")) \notin {1, 2}

\* The reference: the pages of a text, sorted; none when it is rejected.
RefPages(text, n) ==
    IF RefRejects(text) THEN <<>>
    ELSE Sort(RefBlocks(Split(RemoveSpaces(text), ","), n))

\* C7, as the spec states it: the list selectPages returns for an accepted
\* text is the reference's list, and the text it refuses (the line edit is
\* marked and the dialog opens again) is one for which the reference gives no
\* page.
C7_SelectPagesIsReference ==
    [][ /\ (uiPc = "pagesDialog" /\ uiPc' # "pagesDialog" /\ pages' # <<>>) =>
               pages' = RefPages(dlgText, nPages)
        /\ (uiPc = "pagesDialog" /\ ~dlgStyleError /\ dlgStyleError') =>
               RefPages(dlgText, nPages) = <<>> ]_vars

\* The pages of the entries that failed to render, in processing order.
FailedPages ==
    LET f == SelectSeq(rendered, IsFailure) IN [k \in 1..Len(f) |-> f[k].page]

\* C8, as the spec states it: after the session the box is there if and only
\* if a page failed to render, and it lists each failed page exactly once.
C8_EachFailedPageOnce ==
    (PagesSession /\ SessionOver) =>
        /\ msgBoxes # <<>> <=> FailedPages # <<>>
        /\ \A k \in 1..Len(FailedPages) :
               msgBoxes # <<>> /\ Count(FailedPages[k], msgBoxes[1].detail) = 1

\* C8, amended: after the session the critical box is there if and only if
\* an entry of the list failed to render, and it lists the page of every
\* failed entry, in processing order: a page that is in the list twice and
\* fails twice is listed twice.
C8_OneLinePerFailedEntry ==
    (PagesSession /\ SessionOver) =>
        msgBoxes = IF FailedPages # <<>>
                   THEN <<CriticalBox("Recognition errors occurred", FailedPages)>>
                   ELSE <<>>

\* C8 witness: page 1 is in the list twice, failed twice, and the box lists
\* it twice.
C8_Witness ==
    /\ PagesSession /\ SessionOver
    /\ pages = <<1, 1>>
    /\ msgBoxes # <<>>
    /\ msgBoxes[1].detail = <<1, 1>>

\* C9, as the spec states it: when dictionaryAutoinstall has returned and a
\* download of it failed, a critical box was shown, and the information box
\* was not.
C9_DownloadFailureShown ==
    (dict.pc = "done" /\ dict.lost) =>
        /\ \E k \in 1..Len(msgBoxes) : msgBoxes[k].icon = "critical"
        /\ \A k \in 1..Len(msgBoxes) : msgBoxes[k].icon # "information"

\* C10, as the spec states it: when recognize() has returned, everything it
\* queued is executed and no other handler changed the stack meanwhile, the
\* state stack is the stack of before the call.
C10_StackRestored ==
    (PagesSession /\ SessionOver /\ uiQueue = <<>> /\ ~stackTouched) =>
        m_stateStack = stackBefore

IsRead(c) == c.op = "read"

\* C11, as the spec states it: once the recognition is cancelled, no read is
\* called any more, and the worker does not go from inside a page back to the
\* head of the loop unless the list is exhausted: the loop ends with the page
\* during which the cancellation happened.
C11_CancelEndsLoop ==
    [][ (PagesSession /\ ~SessionOver /\ cancelled) =>
            /\ SelectSeq(calls', IsRead) = SelectSeq(calls, IsRead)
            /\ (wpc # "loopHead" /\ wpc' = "loopHead") => idx = Len(pages) ]_vars

\* C12: the state stack is never empty, its bottom entry is Idle and no other
\* entry is, and a Normal entry lies directly on an Idle entry.  (A popState
\* on a stack of one entry would leave the empty stack.)
C12_IdleAtBottom ==
    /\ m_stateStack # <<>>
    /\ \A k \in 1..Len(m_stateStack) :
        /\ m_stateStack[k] = "Idle" <=> k = 1
        /\ m_stateStack[k] = "Normal" => (k > 1 /\ m_stateStack[k - 1] = "Idle")

\* C12 witness: during a recognition the source was lost before the worker's
\* pushState was executed: Normal was popped, and Busy lies on Idle.
C12_Witness ==
    /\ uiPc = "busyTask"
    /\ stackTouched
    /\ stackBefore = <<"Idle", "Normal">>
    /\ m_stateStack = <<"Idle", "Busy">>

C14_CancelledDialogNoSession ==
    (task = "pages" /\ pages = <<>>) =>
        /\ calls = <<>>
        /\ ~m_progressMonitor
        /\ wpc = "none"

MonitorAlive == uiPc = "busyTask"

\* C16: the pointer m_progressMonitor is non-null exactly while the monitor
\* of the running request exists, so progressCancel and progressUpdate, which
\* touch the monitor only through a non-null pointer, never touch a destroyed
\* one; and when the request is over the pointer is null again.
C16_MonitorPointerLive ==
    /\ m_progressMonitor <=> MonitorAlive
    /\ cancelled => task \in {"pages", "buffer", "clipboard"} /\ initOk

\* C16 witness: progressCancel has reached the monitor of a running request.
C16_Witness ==
    /\ m_progressMonitor
    /\ MonitorAlive
    /\ cancelled
    /\ task = "clipboard"

\* C17: at most one "Spelling dictionary missing" notification exists at any
\* time, and m_notifierHandle is null or the frame of that notification.
C17_OneDictionaryNotification ==
    /\ Cardinality(notifications) <= 1
    /\ m_notifierHandle = 0 \/ m_notifierHandle \in notifications

\* C17: German has been selected after English, both without a dictionary:
\* languageChanged has replaced the notification of English.
C17_Witness ==
    /\ announced = <<searchLangSpec("deu")>>
    /\ m_notifierHandle # 0
    /\ notifications = {m_notifierHandle}
    /\ uiPc = "idle" /\ dict.pc = "done"

\* C18: every execution of dictionaryAutoinstall leaves the state stack as it
\* found it, and between two files of the download loop the stack is the
\* one found with the handler's own Busy state on it.
C18_InstallerRestoresStack ==
    /\ (dict.pc = "done" /\ ~stackTouched) => m_stateStack = stackBefore
    /\ (dict.pc = "loop" /\ ~stackTouched) => m_stateStack = Append(stackBefore, "Busy")

\* C19: m_curLang, the language tesseract is initialised with, is the language
\* carried by the most recent languageChanged signal.
C19_CurLangIsAnnounced == announced = <<>> \/ announced = <<m_curLang>>

\* C20: once setMultiLanguage has stored a non-empty set of checked languages,
\* updateLanguagesMenu with the same languages available restores the
\* multilingual mode, the same checked items and the same m_curLang.prefix;
\* with no item checked the prefix is "eng".
C20_MultilingualRoundTrips ==
    m_curLang.name = <<"Multilingual">> =>
        IF menuChecked = {} THEN m_curLang.prefix = <<"eng">>
        ELSE LET menu == updateLanguagesMenu(languageSetting, Elements(menuLanguages), spellDicts)
             IN  /\ menu.isMultilingual
                 /\ menu.menuChecked = menuChecked
                 /\ menu.selected.m_curLang.prefix = m_curLang.prefix

\* C21: exactly one page segmentation mode is checked, it is the stored "psm"
\* setting and one of the menu's ten modes, and it is what SetPageSegMode
\* received in a recognize() request.
C21_OnePsmChecked ==
    /\ Cardinality(psmChecked) = 1
    /\ psmChecked = {psm}
    /\ psm \in PsmModes
    /\ pageSegMode # <<>> => pageSegMode[1] \in PsmModes

\* C21: a mode other than the default has been selected, and a recognize()
\* request that is under way has passed it to tesseract.
C21_Witness ==
    /\ pageSegMode # <<>> /\ pageSegMode[1] # DefaultPsm
    /\ psm = pageSegMode[1]
    /\ task = "pages" /\ uiPc = "busyTask"

\* C22: signalHandlerExec writes a crash-save file only when an output
\* editor exists and is modified, and the name it saves to is the first of
\* the crash-save names of no existing file, so that no file is overwritten.
C22_CrashSave ==
    crash.filename # <<>> =>
        /\ m_outputEditor = "live" /\ modified
        /\ crash.filename[1] = crashSaveName(crash.existed)
        /\ crash.filename[1] \notin crash.existed

\* C22, the part about the name: whatever made the handler save, it saved to
\* the first crash-save name of no existing file; and with a live editor it
\* saved exactly when the editor was modified.
C22_FirstFreeName ==
    /\ crash.filename # <<>> =>
        /\ crash.filename[1] \notin crash.existed
        /\ \A i \in 0..(crash.filename[1] - 1) : i \in crash.existed
        /\ crashFiles = crash.existed \cup {crash.filename[1]}
    /\ (mainPc = "crashed" /\ m_outputEditor = "live") => (crash.filename # <<>> <=> modified)
    /\ (mainPc = "crashed" /\ crash.filename = <<>>) => crashFiles = crash.existed

\* C22: the handler has saved to "<pkg>_crash-save_2.txt" because the two
\* names before it were taken.
C22_NameWitness ==
    /\ mainPc = "crashed" /\ m_outputEditor = "live" /\ modified
    /\ crash.existed = {0, 1}
    /\ crash.filename = <<2>>

\* The lambda has set the flags of the session data for an OCR area.
AreaBegun == session.pc = "areaLoop" /\ session.area >= 1

\* The page's file differs from that of the page set up before it, if any.
OtherFileThanBefore ==
    LET n == Len(session.setUp)
    IN  n < 2 \/ session.setUp[n] # session.setUp[n - 1]

\* C23: for an OCR area of recognize(), prependPage and prependFile are false
\* when one page was requested and false for every area but the first of a
\* page; for the first area of a page of a longer list prependPage is the
\* "ocraddsourcepage" setting, and prependFile is true exactly when
\* "ocraddsourcefilename" is on and prependPage is true or the file is not
\* the one of the page set up before.
C23_PrependFlags ==
    AreaBegun =>
        /\ session.npages <= 1 => ~readSessionData.prependPage /\ ~readSessionData.prependFile
        /\ session.area > 1 => ~readSessionData.prependPage /\ ~readSessionData.prependFile
        /\ (session.area = 1 /\ session.npages > 1) =>
              /\ readSessionData.prependPage = ocraddsourcepage
              /\ readSessionData.prependFile =
                    (ocraddsourcefilename /\ (readSessionData.prependPage \/ OtherFileThanBefore))

\* C23: the third page of a request is of the same file as the first, the
\* second failed to render; with only "ocraddsourcefilename" on, the first
\* area of the third page has neither flag.
C23_Witness ==
    /\ AreaBegun /\ session.area = 1
    /\ session.npages = 3 /\ session.idx = 3
    /\ session.setUp = << <<"a">>, <<"a">> >>
    /\ ocraddsourcefilename /\ ~ocraddsourcepage
    /\ ~readSessionData.prependFile

\* recognizeImage(image, Clipboard) returns from busyTask in this step.
ClipboardRequestEnds == task = "clipboard" /\ uiPc = "busyTask" /\ uiPc' = "idle"

\* Recognize has run to its end and was not cancelled: the text was fetched.
RecognizedUncancelled ==
    {Call("Recognize", 0, 1), Call("GetUTF8Text", 0, 1)} \subseteq Elements(calls)

\* C24: recognizeImage() with destination Clipboard gives the clipboard a new
\* text exactly when the recognition has completed without being cancelled;
\* after a cancelled recognition and after a failed initialisation of
\* tesseract the clipboard is as it was; and the function returns false
\* exactly when the initialisation failed.
C24_ClipboardOnlyWhenCompleted ==
    [][ /\ (clipboard' = "ocr" /\ clipboard # "ocr") =>
              ClipboardRequestEnds /\ initOk /\ RecognizedUncancelled
        /\ ClipboardRequestEnds =>
              /\ clipboard' = IF RecognizedUncancelled THEN "ocr" ELSE clipboard
              /\ retval' = TRUE
        /\ (task' = "clipboard" /\ uiPc' = "idle") => (retval' = initOk')
      ]_vars

\* C24: a recognition for the clipboard was cancelled and has returned true;
\* the clipboard still has the text something else gave it.
C24_Witness ==
    /\ task = "clipboard" /\ uiPc = "idle"
    /\ initOk /\ cancelled
    /\ ~RecognizedUncancelled
    /\ retval = TRUE
    /\ clipboard = "other"

=============================================================================
